---- MODULE Spec2Model ----
(***************************************************************************)
(* Model of the niri automation scripts of custom-scripts:                 *)
(*   - src/niri/dynamic-float.py: the event-stream consumer, the window    *)
(*     registry and the rule engine (specification SpecFloat), and the     *)
(*     pure rule predicates Match.matches / Rule.matches (SpecRule);       *)
(*   - NiriIPC.send_request / NiriIPC.send_action of                       *)
(*     src/modules/niri/niri_helpers.py and src/niri/niri_helpers.py       *)
(*     (specification SpecIPC).                                            *)
(* The configuration and logging collaborators are taken as having run:    *)
(* Init is the state in which `config` holds the loaded TOML table.        *)
(***************************************************************************)
EXTENDS Integers, Sequences, FiniteSets, TLC

VARIABLES
    config,     \* script_config.config["rules"]: the list of TOML rule tables
    RULES,      \* dynamic-float.py:81, the list load_rules_from_config() built
    pc,         \* position of the dynamic-float process
    fault,      \* the exception that ended the process, "none" while there is none
    connected,  \* dynamic-float.py:89-90, the event-stream socket has been connected
    windows,    \* dynamic-float.py:97, the registry: id -> snapshot with its matched flag
    event,      \* the stream line the loop of dynamic-float.py:148 read last
    issued,     \* the send_action calls made while handling `event`, in order
    tally,      \* history of the stream (SpecStays): for each window id, how many
                \* more times it came into the registry than it was floated, kept
                \* within -1..MaxSlack
    call,       \* the function call under test (SpecRule, SpecIPC)
    result,     \* what that call returned or raised
    sock,       \* the socket operations the call performed, in order
    state_file, \* the state file of window-glancer (ScriptConfig.state_file)
    run,        \* the workflow invocation (window-glancer, launch-music): its
                \* position, its locals, and what it returned
    sent_actions, \* the actions that invocation passed to send_action, in order
    spawned     \* the app ids launch-music's main called subprocess.Popen for

vars == <<config, RULES, pc, fault, connected, windows, event, issued, tally, call, result,
          sock, state_file, run, sent_actions, spawned>>

floatVars == <<config, RULES, pc, fault, connected, windows, event, issued, tally>>
callVars == <<call, result, sock>>
flowVars == <<state_file, run, sent_actions, spawned>>

\* No workflow is invoked and there is no state file.
NoRun == [script |-> "none"]
NoFile == [kind |-> "no file"]
FlowIdle ==
    /\ state_file = NoFile
    /\ run = NoRun
    /\ sent_actions = <<>>
    /\ spawned = <<>>

----------------------------------------------------------------------------
(* Python values and outcomes *)

\* Python's None.
None == [t |-> "none"]
\* A Python str, as its sequence of characters.
Str(q) == [t |-> "str", s |-> q]
\* A Python int and a Python bool.
PyInt(n) == [t |-> "int", n |-> n]
PyBool(b) == [t |-> "bool", b |-> b]

\* The outcome of evaluating a Python expression: a value, or a raised exception.
Ok(v) == [exc |-> "none", val |-> v]
Raise(e) == [exc |-> e]
Raised(o) == o.exc # "none"

Min(S) == CHOOSE x \in S : \A y \in S : x <= y

----------------------------------------------------------------------------
(* Bounds and input universes *)

\* Longest window list of a WindowsChanged event.
MaxList == 2
\* Longest match / exclude list of a rule handed to Rule.matches (SpecRule).
MaxPreds == 2

WinIds == {1, 2}

Sp == <<"S", "p">>
LowSp == <<"s", "p">>
SpSong == <<"S", "p", "-">>
Fx == <<"f">>

\* What a window can look like: its title and app_id (JSON string or null).
Looks == { [title |-> Str(SpSong), app_id |-> Str(<<>>)],
           [title |-> Str(LowSp), app_id |-> Str(Fx)],
           [title |-> None, app_id |-> Str(Fx)] }

\* The Window objects the compositor can put in an event.
Snapshots == { [id |-> i, title |-> l.title, app_id |-> l.app_id] : i \in WinIds, l \in Looks }

SeqsUpTo(S, n) == UNION { [1..k -> S] : k \in 0..n }

\* The [[rules]] tables of dynamic-float.toml; a key that is absent reads as None.
RuleTable(ti, ap, w, h, c) == [title |-> ti, app_id |-> ap, width |-> w, height |-> h, centered |-> c]
Configs == { <<>>,
             << RuleTable(Str(Sp), None, None, None, None) >>,
             << RuleTable(None, None, PyInt(4), None, None) >>,
             << RuleTable(Str(Sp), Str(<<>>), PyInt(4), PyInt(8), PyBool(TRUE)),
                RuleTable(None, Str(Fx), PyInt(6), PyInt(0), PyBool(FALSE)) >>,
             << RuleTable(None, Str(Fx), None, PyInt(8), PyBool(TRUE)),
                RuleTable(Str(LowSp), None, PyInt(6), PyInt(2), None) >> }

----------------------------------------------------------------------------
(* dynamic-float.py: Match, Rule, load_rules_from_config *)

\* re.search(pattern, string) is not None, for a pattern without metacharacters:
\* the pattern occurs in the string, letter case included. A string of None
\* raises TypeError.
re_search(pattern, string) ==
    IF string = None THEN Raise("TypeError")
    ELSE LET p == pattern.s
             q == string.s
         IN Ok(\E i \in 0..(Len(q) - Len(p)) : \A j \in 1..Len(p) : q[i + j] = p[j])

\* Match(title=..., app_id=...)
Match(ti, ap) == [title |-> ti, app_id |-> ap]

\* The body of Match.matches once both searches are evaluated: `matched &= ...`
\* on the title, then on the app_id.
both(t, a) ==
    IF Raised(t) THEN t ELSE IF Raised(a) THEN a ELSE Ok(t.val /\ a.val)

\* Match.matches(window)
Match_matches(self, window) ==
    IF self.title = None /\ self.app_id = None THEN Ok(FALSE)
    ELSE both(IF self.title # None THEN re_search(self.title, window.title) ELSE Ok(TRUE),
              IF self.app_id # None THEN re_search(self.app_id, window.app_id) ELSE Ok(TRUE))

\* One turn of Python's any(): a Match that matches (or raises) ends it, the
\* others are tried only after one that does not match.
or_else(outcome, rest) == IF outcome = Ok(FALSE) THEN rest ELSE outcome

\* any(m.matches(window) for m in ms)
RECURSIVE any_matches(_, _)
any_matches(ms, window) ==
    IF ms = <<>> THEN Ok(FALSE)
    ELSE or_else(Match_matches(Head(ms), window), any_matches(Tail(ms), window))

\* Rule(match=..., exclude=..., width=..., height=..., centered=...)
Rule(m, e, w, h, c) == [match |-> m, exclude |-> e, width |-> w, height |-> h, centered |-> c]

\* Mutant of Rule_tests: the first test lacks `len(self.match) > 0`.
Rule_tests_no_len_guard(n, m, x) ==
    IF Raised(m) THEN m
    ELSE IF ~m.val THEN Ok(FALSE)
    ELSE IF Raised(x) THEN x
    ELSE IF x.val THEN Ok(FALSE)
    ELSE Ok(TRUE)

\* The two tests of Rule.matches, given len(self.match) and the outcomes of the
\* two any(...) calls.
Rule_tests(n, m, x) ==
    IF n > 0 /\ Raised(m) THEN m
    ELSE IF n > 0 /\ ~m.val THEN Ok(FALSE)
    ELSE IF Raised(x) THEN x
    ELSE IF x.val THEN Ok(FALSE)
    ELSE Ok(TRUE)

\* Rule.matches(window)
Rule_matches(self, window) ==
    Rule_tests(Len(self.match), any_matches(self.match, window),
               any_matches(self.exclude, window))

\* Python's `v or d`
Or(v, d) ==
    IF v = None \/ v = PyInt(0) \/ v = PyBool(FALSE) \/ v = Str(<<>>) THEN d ELSE v

\* load_rules_from_config(): one Rule per table, with a single Match and no exclude.
load_rules_from_config(tables) ==
    [ i \in 1..Len(tables) |->
        Rule(<< Match(tables[i].title, tables[i].app_id) >>, <<>>,
             Or(tables[i].width, PyInt(0)).n,
             Or(tables[i].height, PyInt(0)).n,
             Or(tables[i].centered, PyBool(FALSE)).b) ]

----------------------------------------------------------------------------
(* dynamic-float.py: the actions sent, update_matched *)

\* -(width / 2) and height / 4 are true divisions: the quotient is kept exact.
Frac(n, d) == [num |-> n, den |-> d]

\* float_window(window_id): the send_action calls it makes
float_window(window_id) ==
    << [a |-> "MoveWindowToFloating", id |-> window_id] >>

\* set_height(window_id, height)
set_height(window_id, height) ==
    << [a |-> "SetWindowHeight", id |-> window_id, SetFixed |-> height] >>

\* set_width(window_id, width)
set_width(window_id, width) ==
    << [a |-> "SetWindowWidth", id |-> window_id, SetFixed |-> width] >>

\* Mutant of set_centered: the window is moved down by half its height.
set_centered_half_height(window_id, width, height) ==
    << [a |-> "MoveFloatingWindow", id |-> window_id, how |-> "SetProportion",
        x |-> Frac(50, 1), y |-> Frac(50, 1)],
       [a |-> "MoveFloatingWindow", id |-> window_id, how |-> "AdjustFixed",
        x |-> Frac(-width, 2), y |-> Frac(height, 2)] >>

\* set_centered(window_id, width, height)
set_centered(window_id, width, height) ==
    << [a |-> "MoveFloatingWindow", id |-> window_id, how |-> "SetProportion",
        x |-> Frac(50, 1), y |-> Frac(50, 1)],
       [a |-> "MoveFloatingWindow", id |-> window_id, how |-> "AdjustFixed",
        x |-> Frac(-width, 2), y |-> Frac(height, 4)] >>

\* Mutant of directives: the width is set before the height.
directives_width_first(window_id, matched_rule) ==
    float_window(window_id)
    \o (IF matched_rule.width # 0 THEN set_width(window_id, matched_rule.width) ELSE <<>>)
    \o (IF matched_rule.height # 0 THEN set_height(window_id, matched_rule.height) ELSE <<>>)
    \o (IF matched_rule.centered
        THEN set_centered(window_id, matched_rule.width, matched_rule.height) ELSE <<>>)

\* The body of `if window["matched"] and not matched_before and matched_rule:`
directives(window_id, matched_rule) ==
    float_window(window_id)
    \o (IF matched_rule.height # 0 THEN set_height(window_id, matched_rule.height) ELSE <<>>)
    \o (IF matched_rule.width # 0 THEN set_width(window_id, matched_rule.width) ELSE <<>>)
    \o (IF matched_rule.centered
        THEN set_centered(window_id, matched_rule.width, matched_rule.height) ELSE <<>>)

\* Mutant of matched_before: the flag of the stored snapshot is not carried over.
matched_before_forgotten(registry, window) == FALSE

\* matched_before: the flag of the registry's snapshot of this id, False without one.
matched_before(registry, window) ==
    IF window.id \in DOMAIN registry THEN registry[window.id].matched ELSE FALSE

\* Mutant of first_match: no `break`, a later rule that matches replaces the rule.
first_match_no_break(outcome, rule, rest) ==
    IF outcome = Ok(FALSE) \/ rest.found = Ok(TRUE) THEN rest
    ELSE [found |-> outcome, matched_rule |-> rule]

\* One turn of `for rule in RULES: if rule.matches(window): ... break`.
first_match(outcome, rule, rest) ==
    IF outcome = Ok(FALSE) THEN rest ELSE [found |-> outcome, matched_rule |-> rule]

\* The `for rule in RULES` loop: nothing matched, or the first rule that matched
\* (or raised) with the outcome of its matches().
RECURSIVE scan_rules(_, _)
scan_rules(rules, window) ==
    IF rules = <<>> THEN [found |-> Ok(FALSE)]
    ELSE first_match(Rule_matches(Head(rules), window), Head(rules),
                     scan_rules(Tail(rules), window))

\* Mutant of apply_rule: the flag is what the rules say of this snapshot.
apply_rule_flag_follows(before, scan, window) ==
    IF Raised(scan.found)
    THEN [exc |-> scan.found.exc, actions |-> <<>>]
    ELSE [exc |-> "none",
          window |-> [id |-> window.id, title |-> window.title, app_id |-> window.app_id,
                      matched |-> scan.found.val],
          actions |-> IF scan.found.val /\ ~before
                      THEN directives(window.id, scan.matched_rule) ELSE <<>>]

\* update_matched(window) after the loop over the rules.
apply_rule(before, scan, window) ==
    IF Raised(scan.found)
    THEN [exc |-> scan.found.exc, actions |-> <<>>]
    ELSE [exc |-> "none",
          window |-> [id |-> window.id, title |-> window.title, app_id |-> window.app_id,
                      matched |-> (before \/ scan.found.val)],
          actions |-> IF scan.found.val /\ ~before
                      THEN directives(window.id, scan.matched_rule) ELSE <<>>]

\* update_matched(window), run against the registry `registry` and the rules `rules`:
\* the exception it raises if any, the window with its matched flag, the actions sent.
update_matched(registry, rules, window) ==
    apply_rule(matched_before(registry, window), scan_rules(rules, window), window)

----------------------------------------------------------------------------
(* dynamic-float.py: the event loop *)

\* The lines the compositor can write to the stream.
WindowsChanged(ws) == [kind |-> "WindowsChanged", windows |-> ws]
WindowOpenedOrChanged(w) == [kind |-> "WindowOpenedOrChanged", window |-> w]
WindowClosed(i) == [kind |-> "WindowClosed", id |-> i]
\* An event object of another kind, such as WorkspacesChanged.
OtherEvent == [kind |-> "WorkspacesChanged"]
\* A line that is not JSON.
Malformed == [kind |-> "not JSON"]
NoEvent == [kind |-> "nothing read"]

Lines ==
    { WindowsChanged(ws) : ws \in SeqsUpTo(Snapshots, MaxList) }
    \cup { WindowOpenedOrChanged(w) : w \in Snapshots }
    \cup { WindowClosed(i) : i \in WinIds }
    \cup { OtherEvent, Malformed }

\* json.loads(line)
json_loads(line) ==
    IF line = Malformed THEN Raise("JSONDecodeError") ELSE Ok(line)

\* What handling one event leaves: the exception raised if any, the registry,
\* the actions sent.
Handled(registry, actions) == [exc |-> "none", windows |-> registry, issued |-> actions]
Faulted(e, registry, actions) == [exc |-> e, windows |-> registry, issued |-> actions]

\* windows[win["id"]] = win
put(registry, win) ==
    [ i \in DOMAIN registry \cup {win.id} |-> IF i = win.id THEN win ELSE registry[i] ]

\* The WindowsChanged branch: update_matched on each window of the list against
\* the registry as it was, then the registry is rebuilt from the list (the last
\* snapshot of an id wins). `built` and `sent` are the new registry and the
\* actions sent so far; `r` is update_matched of the window at the head of `ws`.
RECURSIVE each_window(_, _, _, _, _)
next_window(r, registry, rules, ws, built, sent) ==
    IF r.exc # "none" THEN Faulted(r.exc, registry, sent)
    ELSE each_window(registry, rules, Tail(ws), put(built, r.window), sent \o r.actions)

each_window(registry, rules, ws, built, sent) ==
    IF ws = <<>> THEN Handled(built, sent)
    ELSE next_window(update_matched(registry, rules, Head(ws)), registry, rules, ws, built, sent)

on_WindowsChanged(registry, rules, changed) ==
    each_window(registry, rules, changed.windows, <<>>, <<>>)

\* Mutant of changed_window: the window is stored with its flag false.
changed_window_unflagged(r, registry) ==
    IF r.exc # "none" THEN Faulted(r.exc, registry, <<>>)
    ELSE Handled(put(registry, [r.window EXCEPT !.matched = FALSE]), r.actions)

\* What the WindowOpenedOrChanged branch leaves, `r` being update_matched(win).
changed_window(r, registry) ==
    IF r.exc # "none" THEN Faulted(r.exc, registry, <<>>)
    ELSE Handled(put(registry, r.window), r.actions)

\* The WindowOpenedOrChanged branch
on_WindowOpenedOrChanged(registry, rules, changed) ==
    changed_window(update_matched(registry, rules, changed.window), registry)

\* Mutant of on_WindowClosed: the closed window is floated.
on_WindowClosed_floats(registry, changed) ==
    IF changed.id \in DOMAIN registry
    THEN Handled([ i \in DOMAIN registry \ {changed.id} |-> registry[i] ],
                 float_window(changed.id))
    ELSE Faulted("KeyError", registry, <<>>)

\* The WindowClosed branch: del windows[changed["id"]]
on_WindowClosed(registry, changed) ==
    IF changed.id \in DOMAIN registry
    THEN Handled([ i \in DOMAIN registry \ {changed.id} |-> registry[i] ], <<>>)
    ELSE Faulted("KeyError", registry, <<>>)

\* The branch the if / elif chain of the loop body takes for an event.
branch(ev) ==
    IF ev.kind \in {"WindowsChanged", "WindowOpenedOrChanged", "WindowClosed"}
    THEN ev.kind ELSE "none"

\* Mutant of loop_body: a final `else:` that resets the registry on any other event.
loop_body_else_resets(registry, rules, line) ==
    IF Raised(json_loads(line)) THEN Faulted("JSONDecodeError", registry, <<>>)
    ELSE IF branch(line) = "WindowsChanged" THEN on_WindowsChanged(registry, rules, line)
    ELSE IF branch(line) = "WindowOpenedOrChanged"
         THEN on_WindowOpenedOrChanged(registry, rules, line)
    ELSE IF branch(line) = "WindowClosed" THEN on_WindowClosed(registry, line)
    ELSE Handled(<<>>, <<>>)

\* One iteration of `for line in file:`
loop_body(registry, rules, line) ==
    IF Raised(json_loads(line)) THEN Faulted("JSONDecodeError", registry, <<>>)
    ELSE IF branch(line) = "WindowsChanged" THEN on_WindowsChanged(registry, rules, line)
    ELSE IF branch(line) = "WindowOpenedOrChanged"
         THEN on_WindowOpenedOrChanged(registry, rules, line)
    ELSE IF branch(line) = "WindowClosed" THEN on_WindowClosed(registry, line)
    ELSE Handled(registry, <<>>)

\* The ids of the windows an event carries.
event_ids(line) ==
    IF line.kind = "WindowsChanged"
    THEN { line.windows[k].id : k \in 1..Len(line.windows) }
    ELSE IF line.kind = "WindowOpenedOrChanged" THEN { line.window.id }
    ELSE {}

\* The lines without a WindowsChanged list that has two snapshots of one id.
LinesOnce ==
    { line \in Lines :
        line.kind = "WindowsChanged"
           => \A j, k \in 1..Len(line.windows) :
                 j < k => line.windows[j].id # line.windows[k].id }

\* How many of the actions float the window `id`.
RECURSIVE floats_of(_, _)
floats_of(actions, id) ==
    IF actions = <<>> THEN 0
    ELSE (IF << Head(actions) >> = float_window(id) THEN 1 ELSE 0) + floats_of(Tail(actions), id)

\* The history is kept within -1..MaxSlack.
MaxSlack == 2
within(n) == IF n < -1 THEN -1 ELSE IF n > MaxSlack THEN MaxSlack ELSE n

\* The history before the first event.
NoTally == [ id \in WinIds |-> 0 ]

\* The history after the event `line`, read with the registry `registry`, had
\* the actions `actions` sent: an id the event carries that the registry did
\* not have has come in; each MoveWindowToFloating sent for an id is counted.
tallied(before, registry, line, actions) ==
    [ id \in WinIds |->
        IF before[id] = -1 THEN -1
        ELSE within(before[id]
                    + (IF id \in event_ids(line) /\ id \notin DOMAIN registry THEN 1 ELSE 0)
                    - floats_of(actions, id)) ]

\* What is left of an idle call harness while dynamic-float runs.
NoCall == [fn |-> "none"]

InitFloat ==
    /\ config \in Configs
    /\ RULES = <<>>
    /\ pc = "start"
    /\ fault = "none"
    /\ connected = FALSE
    /\ windows = <<>>
    /\ event = NoEvent
    /\ issued = <<>>
    /\ tally = NoTally
    /\ call = NoCall
    /\ result = NoCall
    /\ sock = <<>>
    /\ FlowIdle

\* Mutant of check_rules: the `if not RULES` test is missing.
check_rules_missing(rules) == "connect"

\* Lines 81-85: RULES = load_rules_from_config(); no rules, exit status 1.
check_rules(rules) == IF Len(rules) = 0 THEN "exit1" ELSE "connect"

\* Lines 81-95 with a compositor that accepts the connection.
Startup ==
    /\ pc = "start"
    /\ RULES' = load_rules_from_config(config)
    /\ IF check_rules(RULES') = "exit1"
       THEN pc' = "exit1" /\ connected' = FALSE
       ELSE pc' = "running" /\ connected' = TRUE
    /\ UNCHANGED <<config, fault, windows, event, issued, tally, callVars, flowVars>>

\* Lines 81-90 with a socket that refuses: connect raises, the process ends.
StartupRefused ==
    /\ pc = "start"
    /\ RULES' = load_rules_from_config(config)
    /\ check_rules(RULES') = "connect"
    /\ pc' = "crashed"
    /\ fault' = "ConnectionRefusedError"
    /\ connected' = FALSE
    /\ UNCHANGED <<config, windows, event, issued, tally, callVars, flowVars>>

\* Lines 148-160: the loop reads one line, of `lines`, and handles it; the
\* history is kept if `kept`.
ReadLineOf(lines, kept) ==
    /\ pc = "running"
    /\ \E line \in lines :
        \E h \in { loop_body(windows, RULES, line) } :
           /\ event' = line
           /\ windows' = h.windows
           /\ issued' = h.issued
           /\ tally' = IF kept THEN tallied(tally, windows, line, h.issued) ELSE tally
           /\ fault' = h.exc
           /\ pc' = IF h.exc = "none" THEN "running" ELSE "crashed"
    /\ UNCHANGED <<config, RULES, connected, callVars, flowVars>>

ReadLine == ReadLineOf(Lines, FALSE)

\* The stream ends (the compositor closed the socket): the for loop is over.
StreamClosed ==
    /\ pc = "running"
    /\ pc' = "exit0"
    /\ UNCHANGED <<config, RULES, fault, connected, windows, event, issued, tally, callVars,
                   flowVars>>

NextFloat == Startup \/ StartupRefused \/ ReadLine \/ StreamClosed

SpecFloat == InitFloat /\ [][NextFloat]_vars

\* The process on a stream in which no WindowsChanged list has an id twice,
\* with the history of its floats.
ReadLineOnce == ReadLineOf(LinesOnce, TRUE)

NextStays == Startup \/ StartupRefused \/ ReadLineOnce \/ StreamClosed

SpecStays == InitFloat /\ [][NextStays]_vars

----------------------------------------------------------------------------
(* Match.matches / Rule.matches as pure functions *)

\* The Match predicates a rule handed to Rule.matches is built from.
Matches == { Match(Str(Sp), None), Match(None, Str(Fx)),
             Match(Str(LowSp), Str(Fx)), Match(None, None) }

\* The float process where it plays no part.
FloatIdle ==
    /\ config = <<>>
    /\ RULES = <<>>
    /\ pc = "idle"
    /\ fault = "none"
    /\ connected = FALSE
    /\ windows = <<>>
    /\ event = NoEvent
    /\ issued = <<>>
    /\ tally = NoTally

InitRule ==
    /\ FloatIdle
    /\ \E m \in SeqsUpTo(Matches, MaxPreds), x \in SeqsUpTo(Matches, MaxPreds), l \in Looks :
          call = [fn |-> "Rule.matches",
                  rule |-> Rule(m, x, 0, 0, FALSE),
                  window |-> [id |-> 1, title |-> l.title, app_id |-> l.app_id]]
    /\ result = NoCall
    /\ sock = <<>>
    /\ FlowIdle

\* The call is made.
EvalRule ==
    /\ call.fn = "Rule.matches"
    /\ result = NoCall
    /\ result' = Rule_matches(call.rule, call.window)
    /\ UNCHANGED <<floatVars, flowVars, call, sock>>

NextRule == EvalRule

SpecRule == InitRule /\ [][NextRule]_vars

----------------------------------------------------------------------------
(* NiriIPC.send_request / NiriIPC.send_action (both niri_helpers.py) *)

\* A Python list and a Python dict (its keys are strings, kept as character
\* sequences).
List(items) == [t |-> "list", items |-> items]
Dict(items) == [t |-> "dict", items |-> items]
EmptyDict == Dict(<<>>)
Dict1(k, v) == Dict([ x \in {k} |-> v ])
Dict2(k1, v1, k2, v2) == Dict([ x \in {k1, k2} |-> IF x = k1 THEN v1 ELSE v2 ])

KeyOk == <<"O", "k">>
KeyErr == <<"E", "r", "r">>
NameWindows == <<"W", "i", "n", "d", "o", "w", "s">>
NameWorkspaces == <<"W", "o", "r", "k", "s", "p", "a", "c", "e", "s">>
TextHandled == <<"H", "a", "n", "d", "l", "e", "d">>

\* The request names passed to send_request: two requests, the empty string, a
\* blank string, and a value that is not a str.
RequestNames == { Str(NameWindows), Str(NameWorkspaces), Str(<<>>), Str(<<" ", " ">>), None }

\* The values v of a reply {"Ok": v}.
Payloads == { None, PyInt(3), Str(TextHandled), List(<< PyInt(1), PyInt(2) >>), EmptyDict,
              Dict1(NameWindows, List(<< PyInt(1) >>)),
              Dict1(NameWindows, None),
              Dict1(NameWorkspaces, List(<<>>)),
              Dict2(NameWindows, PyInt(7), NameWorkspaces, PyInt(9)) }

\* What the bytes received decode and parse to.
NotUtf8 == [kind |-> "bytes that are not UTF-8"]
NotJson == [kind |-> "text that is not JSON"]
Json(v) == [kind |-> "JSON", value |-> v]

Replies ==
    { Json(Dict1(KeyOk, v)) : v \in Payloads }
    \cup { Json(Dict1(KeyErr, Str(<<"n", "o">>))), Json(EmptyDict),
           Json(List(<< PyInt(1) >>)), Json(List(<< Str(KeyOk) >>)),
           Json(Str(KeyOk)), Json(Str(<<"n", "o">>)), Json(PyInt(5)), Json(None),
           NotJson, NotUtf8 }

\* What the socket does during one call: connect, sendall and recv each succeed
\* or raise; a recv that succeeds returns the reply.
Transport(c, s, r, reply) == [connect |-> c, sendall |-> s, recv |-> r, reply |-> reply]
Transports ==
    { Transport("ok", "ok", "ok", r) : r \in Replies }
    \cup { Transport("ConnectionRefusedError", "ok", "ok", NotJson),
           Transport("FileNotFoundError", "ok", "ok", NotJson),
           Transport("ok", "BrokenPipeError", "ok", NotJson),
           Transport("ok", "ok", "TimeoutError", NotJson),
           Transport("ok", "ok", "ConnectionResetError", NotJson) }

\* The subclasses of OSError the socket raises.
OSErrors == { "ConnectionRefusedError", "FileNotFoundError", "BrokenPipeError",
              "TimeoutError", "ConnectionResetError" }

\* str.strip() leaves nothing: every character is whitespace.
strips_to_empty(q) == \A i \in 1..Len(q) : q[i] = " "

\* What a call leaves: its outcome and the socket operations it performed.
Did(outcome, ops) == [out |-> outcome, sock |-> ops]

\* `with socket(AF_UNIX) as s:` connect, sendall, recv(8192).decode(): the text
\* received, or the exception raised, with the socket operations performed.
exchange(tr) ==
    IF tr.connect # "ok" THEN Did(Raise(tr.connect), << "connect" >>)
    ELSE IF tr.sendall # "ok" THEN Did(Raise(tr.sendall), << "connect", "sendall" >>)
    ELSE IF tr.recv # "ok" THEN Did(Raise(tr.recv), << "connect", "sendall", "recv" >>)
    ELSE IF tr.reply = NotUtf8
         THEN Did(Raise("UnicodeDecodeError"), << "connect", "sendall", "recv" >>)
    ELSE Did(Ok(tr.reply), << "connect", "sendall", "recv" >>)

\* json.loads(response)
json_loads_response(response) ==
    IF response = NotJson THEN Raise("JSONDecodeError") ELSE Ok(response.value)

\* `"Ok" in parsed`
Ok_in(parsed) ==
    IF parsed.t = "dict" THEN Ok(KeyOk \in DOMAIN parsed.items)
    ELSE IF parsed.t = "list" THEN Ok(\E i \in 1..Len(parsed.items) : parsed.items[i] = Str(KeyOk))
    ELSE IF parsed.t = "str" THEN re_search(Str(KeyOk), parsed)
    ELSE Raise("TypeError")

\* Mutant of unwrap_ok: the single-key wrapper is not unwrapped.
unwrap_ok_kept(ok_data, request_name) == Ok(ok_data)

\* Lines 67-71: the Ok branch for a parsed dict.
unwrap_ok(ok_data, request_name) ==
    IF ok_data.t = "dict" /\ request_name # None /\ request_name.s \in DOMAIN ok_data.items
    THEN Ok(ok_data.items[request_name.s])
    ELSE Ok(ok_data)

\* Lines 66-74: the if / else on the parsed reply.
unwrap(parsed, request_name) ==
    IF Raised(Ok_in(parsed)) THEN Ok_in(parsed)
    ELSE IF Ok_in(parsed).val
         THEN (IF parsed.t = "dict" THEN unwrap_ok(parsed.items[KeyOk], request_name)
               ELSE Raise("TypeError"))
    ELSE (IF parsed.t = "dict" THEN Ok(None) ELSE Raise("AttributeError"))

\* `except (OSError, json.JSONDecodeError, KeyError): return None`
except_request(outcome) ==
    IF outcome.exc \in OSErrors \cup {"JSONDecodeError", "KeyError"} THEN Ok(None) ELSE outcome

\* The try block of send_request after the exchange `x`.
parse_reply(x, request_name) ==
    IF Raised(x.out) THEN Did(except_request(x.out), x.sock)
    ELSE IF Raised(json_loads_response(x.out.val))
         THEN Did(except_request(json_loads_response(x.out.val)), x.sock)
    ELSE Did(except_request(unwrap(json_loads_response(x.out.val).val, request_name)), x.sock)

\* The validation of send_request: the request name is refused.
bad_request_name(request_name, require_str) ==
    require_str /\ (request_name.t # "str" \/ strips_to_empty(request_name.s))

\* NiriIPC.send_request(request_name, require_str=...)
send_request(request_name, require_str, tr) ==
    IF bad_request_name(request_name, require_str)
    THEN Did(Raise("ValueError"), <<>>)
    ELSE parse_reply(exchange(tr), request_name)

\* The validation of send_action: the action is refused.
bad_action(action) == action.t # "dict" \/ action.items = <<>>

\* Mutant of except_action: the handler lets the exception through.
except_action_reraises(outcome) == outcome

\* `except OSError` (modules/niri) and `except (OSError, ConnectionError)` (niri):
\* ConnectionError is an OSError, the two catch the same exceptions.
except_action(outcome) ==
    IF Raised(outcome) /\ outcome.exc \notin OSErrors THEN outcome ELSE Ok(None)

\* Mutant of send_action: the action is validated after the exchange.
send_action_validates_late(action, tr) ==
    IF bad_action(action)
    THEN Did(Raise("ValueError"), exchange(tr).sock)
    ELSE Did(except_action(exchange(tr).out), exchange(tr).sock)

\* NiriIPC.send_action(action)
send_action(action, tr) ==
    IF bad_action(action)
    THEN Did(Raise("ValueError"), <<>>)
    ELSE Did(except_action(exchange(tr).out), exchange(tr).sock)

\* The actions passed to send_action: two of the workflows' actions, the empty
\* dict, and values that are not a dict.
FocusWindow(i) == Dict1(<<"F", "o", "c", "u", "s", "W", "i", "n", "d", "o", "w">>,
                        Dict1(<<"i", "d">>, PyInt(i)))
MoveColumnToFirst == Dict1(<<"M", "o", "v", "e", "C", "o", "l", "u", "m", "n", "T", "o",
                             "F", "i", "r", "s", "t">>, EmptyDict)
ActionArgs == { FocusWindow(1), MoveColumnToFirst, EmptyDict, None, List(<<>>), Str(TextHandled) }

InitIPC ==
    /\ FloatIdle
    /\ \/ \E n \in RequestNames, rs \in BOOLEAN, tr \in Transports :
             call = [fn |-> "send_request", request_name |-> n, require_str |-> rs,
                     transport |-> tr]
       \/ \E a \in ActionArgs, tr \in Transports :
             call = [fn |-> "send_action", action |-> a, transport |-> tr]
    /\ result = NoCall
    /\ sock = <<>>
    /\ FlowIdle

\* The call to send_request is made.
CallSendRequest ==
    /\ call.fn = "send_request"
    /\ result = NoCall
    /\ \E d \in { send_request(call.request_name, call.require_str, call.transport) } :
          result' = d.out /\ sock' = d.sock
    /\ UNCHANGED <<floatVars, flowVars, call>>

\* The call to send_action is made.
CallSendAction ==
    /\ call.fn = "send_action"
    /\ result = NoCall
    /\ \E d \in { send_action(call.action, call.transport) } :
          result' = d.out /\ sock' = d.sock
    /\ UNCHANGED <<floatVars, flowVars, call>>

NextIPC == CallSendRequest \/ CallSendAction

SpecIPC == InitIPC /\ [][NextIPC]_vars

----------------------------------------------------------------------------
(* Claims on dynamic-float *)

\* A step of the event loop: the line read is event'.
ReadStep == pc = "running" /\ pc' \in {"running", "crashed"}

\* The window ids an event carries a snapshot of.
SnapshotIds(ev) ==
    IF ev.kind = "WindowOpenedOrChanged" THEN {ev.window.id}
    ELSE IF ev.kind = "WindowsChanged" THEN { ev.windows[i].id : i \in 1..Len(ev.windows) }
    ELSE {}

\* C1: when the registry's snapshot of a window id already has matched = true,
\* handling a further WindowOpenedOrChanged or WindowsChanged snapshot of that id
\* sends no IPC action for it, whatever the rules and the new title / app_id.
C1_EdgeTriggerIdempotent ==
    [][ReadStep =>
         \A id \in SnapshotIds(event') :
            (id \in DOMAIN windows /\ windows[id].matched)
               => \A k \in 1..Len(issued') : issued'[k].id # id]_vars

\* C1 witness: a window already matched got a further snapshot that still matches
\* a rule, and nothing was sent.
C1_Witness ==
    /\ pc = "running"
    /\ event.kind = "WindowOpenedOrChanged"
    /\ event.window.id \in DOMAIN windows
    /\ windows[event.window.id].matched
    /\ \E i \in 1..Len(RULES) : Rule_matches(RULES[i], event.window) = Ok(TRUE)
    /\ issued = <<>>

ExcludeOutcomes ==
    [ i \in 1..Len(call.rule.exclude) |-> Match_matches(call.rule.exclude[i], call.window) ]

FoldStep(keys, ev) ==
    IF ev.kind = "WindowsChanged" THEN SnapshotIds(ev)
    ELSE IF ev.kind = "WindowOpenedOrChanged" THEN keys \cup {ev.window.id}
    ELSE IF ev.kind = "WindowClosed" THEN keys \ {ev.id}
    ELSE keys

\* The event carries no window whose title is null.
Titled(ev) ==
    /\ ev.kind = "WindowOpenedOrChanged" => ev.window.title # None
    /\ ev.kind = "WindowsChanged" => \A i \in 1..Len(ev.windows) : ev.windows[i].title # None

\* C3 as claimed: every stream event (here: of windows that have a title) is folded
\* into the registry (WindowsChanged resets the keys to the ids of its list,
\* WindowOpenedOrChanged adds its id, WindowClosed removes its id), which keeps one
\* snapshot per id, and the consumer is there to fold the next event.
C3_RegistryIsFold ==
    [][(ReadStep /\ event' # Malformed /\ Titled(event')) =>
         /\ pc' = "running"
         /\ DOMAIN windows' = FoldStep(DOMAIN windows, event')
         /\ \A id \in DOMAIN windows' : windows'[id].id = id]_vars

\* C4 as claimed: WindowClosed for an id that is not in the registry changes
\* nothing, raises nothing, and the consumer goes on.
C4_MissingCloseIsNoop ==
    [][(ReadStep /\ event'.kind = "WindowClosed" /\ event'.id \notin DOMAIN windows) =>
         (pc' = "running" /\ fault' = "none" /\ windows' = windows)]_vars

\* C5 as claimed: a line that is not JSON is skipped and the consumer goes on.
C5_MalformedLineSkipped ==
    [][(ReadStep /\ event' = Malformed) =>
         (pc' = "running" /\ fault' = "none" /\ windows' = windows)]_vars

\* C6: an event of a kind other than WindowsChanged, WindowOpenedOrChanged and
\* WindowClosed leaves the registry and the matched flags as they were, sends no
\* action, and the consumer goes on.
C6_UnknownEventIgnored ==
    [][(ReadStep /\ event' = OtherEvent) =>
         (pc' = "running" /\ fault' = "none" /\ windows' = windows /\ issued' = <<>>)]_vars

\* C6 witness: an event of another kind was read with a matched window in the
\* registry, and the consumer is still reading.
C6_Witness ==
    /\ pc = "running"
    /\ event = OtherEvent
    /\ \E id \in DOMAIN windows : windows[id].matched

\* C7: with no rule configured, startup ends with exit status 1, the event-stream
\* socket never connected, no line read and no action sent.
C7_NoRulesNoConnection ==
    /\ (Len(config) = 0 /\ pc # "start") => pc = "exit1"
    /\ pc = "exit1" => (~connected /\ event = NoEvent /\ issued = <<>> /\ windows = <<>>)

\* C7 witness: the process has exited with status 1 on an empty rule list.
C7_Witness ==
    pc = "exit1" /\ Len(RULES) = 0

----------------------------------------------------------------------------
(* Claims on the IPC client *)

GotOkReply ==
    /\ call.fn = "send_request"
    /\ result # NoCall
    /\ sock = << "connect", "sendall", "recv" >>
    /\ call.transport.recv = "ok"
    /\ call.transport.reply.kind = "JSON"
    /\ call.transport.reply.value.t = "dict"
    /\ KeyOk \in DOMAIN call.transport.reply.value.items

\* C9: on a reply {"Ok": v}, send_request(name) returns v[name] if v is a mapping
\* that has the key name, and v itself otherwise.
C9_OkUnwrapped ==
    GotOkReply =>
        IF /\ call.transport.reply.value.items[KeyOk].t = "dict"
           /\ call.request_name.t = "str"
           /\ call.request_name.s \in DOMAIN call.transport.reply.value.items[KeyOk].items
        THEN result = Ok(call.transport.reply.value.items[KeyOk].items[call.request_name.s])
        ELSE result = Ok(call.transport.reply.value.items[KeyOk])

\* C9 witness: the reply {"Ok": {"Windows": [1]}} to send_request("Windows") gave [1].
C9_Witness ==
    /\ GotOkReply
    /\ call.request_name = Str(NameWindows)
    /\ call.transport.reply.value.items[KeyOk] = Dict1(NameWindows, List(<< PyInt(1) >>))
    /\ result = Ok(List(<< PyInt(1) >>))

\* The exchange failed, or the reply is not an {"Ok": ...} envelope.
NoOkReply ==
    \/ call.transport.connect # "ok"
    \/ call.transport.sendall # "ok"
    \/ call.transport.recv # "ok"
    \/ call.transport.reply.kind # "JSON"
    \/ call.transport.reply.value.t # "dict"
    \/ KeyOk \notin DOMAIN call.transport.reply.value.items

\* C10 as claimed: send_request with a valid name raises nothing, and returns None
\* on an Err envelope, on malformed or truncated JSON, on JSON of another shape
\* and on every transport failure (stated here for the replies that decode as
\* text).
C10_RequestNeverRaises ==
    (call.fn = "send_request" /\ result # NoCall
       /\ call.request_name \in { Str(NameWindows), Str(NameWorkspaces) }
       /\ call.transport.reply # NotUtf8)
     => (~Raised(result) /\ (NoOkReply => result = Ok(None)))

\* The socket of the call failed at connect, at sendall or at recv.
TransportFailed ==
    \/ call.transport.connect # "ok"
    \/ call.transport.sendall # "ok"
    \/ call.transport.recv # "ok"

\* C11: send_action with a non-empty dict action raises nothing when connect,
\* sendall or recv fails: the call returns (None) as it does when they succeed.
C11_TransportErrorSwallowed ==
    (call.fn = "send_action" /\ result # NoCall /\ ~bad_action(call.action) /\ TransportFailed)
        => result = Ok(None)

\* C11 witness: FocusWindow was sent into a socket whose recv timed out, and the
\* call returned.
C11_Witness ==
    /\ call.fn = "send_action"
    /\ call.action = FocusWindow(1)
    /\ call.transport.recv = "TimeoutError"
    /\ sock = << "connect", "sendall", "recv" >>
    /\ result = Ok(None)

----------------------------------------------------------------------------
(* helpers/general_helpers.py: the state file, ScriptConfig.load_state and  *)
(* ScriptConfig.save_state; window_glancer.py: get_current_state, save_state *)

\* A dict written as a Python literal: its keys are the field names.
Get(d, key, default) == IF key \in DOMAIN d.items THEN d.items[key] ELSE default

\* JSON text, by the document it spells: null, a number, a string, true / false,
\* or an object with its members.
JDoc(j, v) == [j |-> j, v |-> v]

\* What the state file holds: nothing (no file), text that json.load refuses (an
\* empty or cut-off file), or a JSON document.
Unparsable == [kind |-> "text that is not JSON"]
FileText(doc) == [kind |-> "JSON text", doc |-> doc]

\* json.dump(state, f, indent=2) of a dict of None, int, bool and str values.
json_dump(state) ==
    JDoc("object", [ k \in DOMAIN state.items |->
        IF state.items[k].t = "none" THEN JDoc("null", 0)
        ELSE IF state.items[k].t = "int" THEN JDoc("number", state.items[k].n)
        ELSE IF state.items[k].t = "bool" THEN JDoc("boolean", state.items[k].b)
        ELSE JDoc("string", state.items[k].s) ])

\* json.load(f) of an object of null, numbers, true / false and strings.
json_load(doc) ==
    Dict([ k \in DOMAIN doc.v |->
        IF doc.v[k].j = "null" THEN None
        ELSE IF doc.v[k].j = "number" THEN PyInt(doc.v[k].v)
        ELSE IF doc.v[k].j = "boolean" THEN PyBool(doc.v[k].v)
        ELSE Str(doc.v[k].v) ])

\* ScriptConfig.__init__, lines 55-60: a state file that is absent is created as
\* "{}"; an OSError of that write is passed over and the file stays absent.
ensure_state_file(file, write_ok) ==
    IF file = NoFile /\ write_ok THEN FileText(JDoc("object", <<>>)) ELSE file

\* Mutant of load_state: a file that does not parse gives None.
load_state_none_on_error(file) ==
    IF file = NoFile \/ file = Unparsable THEN None ELSE json_load(file.doc)

\* ScriptConfig.load_state() (default=None): FileNotFoundError and
\* JSONDecodeError give {}.
load_state(file) ==
    IF file = NoFile \/ file = Unparsable THEN EmptyDict ELSE json_load(file.doc)

\* Mutant of ScriptConfig_save_state: None is written as the string "None".
ScriptConfig_save_state_stringly(state) ==
    FileText(JDoc("object", [ k \in DOMAIN state.items |->
        IF state.items[k] = None THEN JDoc("string", <<"N", "o", "n", "e">>)
        ELSE json_dump(state).v[k] ]))

\* ScriptConfig.save_state(state): the file after the call. The write is taken
\* to succeed (the except branch only logs).
ScriptConfig_save_state(state) == FileText(json_dump(state))

primary == <<"p", "r", "i", "m", "a", "r", "y">>
glance == <<"g", "l", "a", "n", "c", "e">>

\* The tuple get_current_state returns.
CurrentState(st, column, width, secondary) ==
    [state |-> st, saved_column |-> column, saved_width |-> width,
     saved_secondary_window_id |-> secondary]

\* window_glancer.get_current_state(), given what load_state returned: the
\* tuple, or the AttributeError of `.get` on a value that is not a dict.
get_current_state(state_data) ==
    IF state_data.t # "dict" THEN Raise("AttributeError")
    ELSE Ok(CurrentState(Get(state_data, "state", Str(primary)),
                         Get(state_data, "saved_column", None),
                         Get(state_data, "saved_width", None),
                         Get(state_data, "saved_secondary_window_id", None)))

\* window_glancer.save_state(state, saved_column, saved_width,
\* saved_secondary_window_id): the file after the call.
save_state(st, column, width, secondary) ==
    ScriptConfig_save_state(Dict(CurrentState(st, column, width, secondary)))

\* An int of S or None.
OrNone(S) == { PyInt(n) : n \in S } \cup { None }

\* The valid toggle records: columns 1 and 3, widths of 800 and 1200 pixels.
ToggleRecords ==
    { CurrentState(Str(st), c, w, i) :
        st \in {primary, glance}, c \in OrNone({1, 3}), w \in OrNone({800, 1200}),
        i \in OrNone(WinIds) }

\* The state file before a call: absent, cut off, the "{}" of the constructor,
\* or an earlier record.
FilesBefore ==
    { NoFile, Unparsable, FileText(JDoc("object", <<>>)),
      save_state(Str(glance), PyInt(1), PyInt(800), None) }

InitState ==
    /\ FloatIdle
    /\ state_file \in FilesBefore
    /\ \E s \in ToggleRecords : call = [fn |-> "save_state", state |-> s]
    /\ result = NoCall
    /\ sock = <<>>
    /\ run = NoRun
    /\ sent_actions = <<>>
    /\ spawned = <<>>

\* save_state(s) is called; load_state() is called next.
CallSaveState ==
    /\ call.fn = "save_state"
    /\ state_file' = save_state(call.state.state, call.state.saved_column,
                                call.state.saved_width, call.state.saved_secondary_window_id)
    /\ call' = [fn |-> "load_state", saved |-> call.state]
    /\ UNCHANGED <<floatVars, result, sock, run, sent_actions, spawned>>

\* load_state() is called.
CallLoadState ==
    /\ call.fn = "load_state"
    /\ result = NoCall
    /\ result' = Ok(load_state(state_file))
    /\ UNCHANGED <<floatVars, call, sock, flowVars>>

NextState == CallSaveState \/ CallLoadState

SpecState == InitState /\ [][NextState]_vars

\* Two invocations on one state file: one is in ScriptConfig.save_state(new),
\* the file holding the record `old`; the other calls load_state() at any time.
Saving(pc_, old, new) == [script |-> "save_state", pc |-> pc_, old |-> old, new |-> new]

InitShared ==
    /\ FloatIdle
    /\ \E old \in ToggleRecords, new \in ToggleRecords :
          /\ new # old
          /\ state_file = ScriptConfig_save_state(Dict(old))
          /\ run = Saving("open", old, new)
    /\ call = [fn |-> "load_state during save_state"]
    /\ result = NoCall
    /\ sock = <<>>
    /\ sent_actions = <<>>
    /\ spawned = <<>>

\* Line 137: open(self.state_file, 'w') empties the file.
SaveOpen ==
    /\ run.script = "save_state"
    /\ run.pc = "open"
    /\ state_file' = Unparsable
    /\ run' = Saving("dump", run.old, run.new)
    /\ UNCHANGED <<floatVars, callVars, sent_actions, spawned>>

\* Lines 138-139: json.dump fills the buffer of f, which the end of the `with`
\* block writes to the file.
SaveDump ==
    /\ run.script = "save_state"
    /\ run.pc = "dump"
    /\ state_file' = ScriptConfig_save_state(Dict(run.new))
    /\ run' = Saving("saved", run.old, run.new)
    /\ UNCHANGED <<floatVars, callVars, sent_actions, spawned>>

\* Lines 128-133 in the other process.
LoadMeanwhile ==
    /\ run.script = "save_state"
    /\ result = NoCall
    /\ result' = Ok(load_state(state_file))
    /\ UNCHANGED <<floatVars, call, sock, flowVars>>

NextShared == SaveOpen \/ SaveDump \/ LoadMeanwhile

SpecShared == InitShared /\ [][NextShared]_vars

----------------------------------------------------------------------------
(* modules/niri/window_glancer.py *)

\* config.toml of window-glancer.
WINDOW_TITLE_REGEX == Str(LowSp)
GLANCE_WORKSPACE_NAME == Str(glance)
SECONDARY_MONITOR_NAME == Str(<<"D", "P", "-", "2">>)
PRIMARY_MONITOR_NAME == Str(<<"D", "P", "-", "1">>)
PRIMARY_WORKSPACE == Str(<<"m", "a", "i", "n">>)

\* The letter c without its case.
fold_case(c) ==
    LET Upper == <<"A", "B", "C", "D", "E", "F", "G", "H", "I", "J", "K", "L", "M",
                   "N", "O", "P", "Q", "R", "S", "T", "U", "V", "W", "X", "Y", "Z">>
        Lower == <<"a", "b", "c", "d", "e", "f", "g", "h", "i", "j", "k", "l", "m",
                   "n", "o", "p", "q", "r", "s", "t", "u", "v", "w", "x", "y", "z">>
    IN IF \E i \in 1..26 : Upper[i] = c
       THEN Lower[CHOOSE i \in 1..26 : Upper[i] = c]
       ELSE c

\* re.search(pattern, string, re.IGNORECASE) is not None, for a pattern without
\* metacharacters. A string of None raises TypeError.
re_search_IGNORECASE(pattern, string) ==
    IF string = None THEN Raise("TypeError")
    ELSE re_search(Str([ i \in 1..Len(pattern.s) |-> fold_case(pattern.s[i]) ]),
                   Str([ i \in 1..Len(string.s) |-> fold_case(string.s[i]) ]))

\* A Window of the Windows reply, with the keys the glancer reads.
Tiled(column) == List(<< PyInt(column), PyInt(1) >>)
GlancerWindow(i, title, pos, width) ==
    Dict([id |-> PyInt(i), title |-> title,
          layout |-> Dict([pos_in_scrolling_layout |-> pos,
                           window_size |-> List(<< PyInt(width), PyInt(600) >>)])])

\* The window lists the compositor answers Windows with: the target window is
\* the one titled "Sp-".
GlancerWindowLists ==
    { <<>>,
      << GlancerWindow(1, Str(Fx), Tiled(1), 800) >>,
      << GlancerWindow(1, None, Tiled(1), 800) >>,
      << GlancerWindow(1, Str(SpSong), Tiled(1), 800) >>,
      << GlancerWindow(1, Str(Fx), Tiled(1), 800), GlancerWindow(2, Str(SpSong), Tiled(3), 1200) >>,
      << GlancerWindow(1, None, Tiled(1), 800), GlancerWindow(2, Str(SpSong), Tiled(3), 1200) >>,
      << GlancerWindow(2, Str(SpSong), None, 1200) >> }

\* `x[0] if x and len(x) >= 2 else None`
first_of_pair(x) == IF x.t = "list" /\ Len(x.items) >= 2 THEN x.items[1] ELSE None

\* The tuple find_target_window returns.
Target(window_id, column_index, width) ==
    [id |-> window_id, column |-> column_index, width |-> width]

\* Lines 60-70: the loop over the windows; lines 62-68 give the details of the
\* window that matched.
RECURSIVE find_in(_)
target_or_next(searched, win, rest) ==
    IF Raised(searched) THEN searched
    ELSE IF searched.val
    THEN Ok(Target(win.items.id,
                   first_of_pair(Get(Get(win, "layout", EmptyDict), "pos_in_scrolling_layout", None)),
                   first_of_pair(Get(Get(win, "layout", EmptyDict), "window_size", None))))
    ELSE find_in(rest)
find_in(wins) ==
    IF wins = <<>> THEN Ok(Target(None, None, None))
    ELSE target_or_next(re_search_IGNORECASE(WINDOW_TITLE_REGEX, Get(Head(wins), "title", Str(<<>>))),
                        Head(wins), Tail(wins))

\* find_target_window(), given what send_request("Windows") returned.
find_target_window(windows_reply) ==
    find_in(IF windows_reply.t = "list" THEN windows_reply.items ELSE <<>>)

\* Python's truth value of None, an int or a bool.
truthy(v) == v # None /\ v # PyInt(0) /\ v # PyBool(FALSE)

\* A Workspace of the Workspaces reply.
Workspace(i, idx, name, output, is_active, is_focused, active_window_id) ==
    Dict([id |-> PyInt(i), idx |-> PyInt(idx), name |-> name, output |-> output,
          is_active |-> PyBool(is_active), is_focused |-> PyBool(is_focused),
          active_window_id |-> active_window_id])

\* The workspace lists the compositor answers Workspaces with: the secondary
\* monitor is not focused and shows window 2 on the first of its two workspaces;
\* it is focused and shows an empty workspace; it has no workspace.
GlancerWorkspaceLists ==
    { << Workspace(1, 1, PRIMARY_WORKSPACE, PRIMARY_MONITOR_NAME, TRUE, TRUE, PyInt(1)),
         Workspace(2, 1, None, SECONDARY_MONITOR_NAME, TRUE, FALSE, PyInt(2)),
         Workspace(3, 2, None, SECONDARY_MONITOR_NAME, FALSE, FALSE, None) >>,
      << Workspace(1, 1, PRIMARY_WORKSPACE, PRIMARY_MONITOR_NAME, TRUE, FALSE, PyInt(1)),
         Workspace(2, 1, None, SECONDARY_MONITOR_NAME, TRUE, TRUE, None) >>,
      << Workspace(1, 1, PRIMARY_WORKSPACE, PRIMARY_MONITOR_NAME, TRUE, TRUE, PyInt(1)) >> }

\* Lines 35-46: one turn of the loop of get_workspace_info (the output of a
\* workspace is its name, or a dict that has it).
info_after(info, ws, monitor_name) ==
    IF (IF Get(ws, "output", None).t = "dict" THEN Get(Get(ws, "output", None), "name", None)
        ELSE Get(ws, "output", None)) # monitor_name
    THEN info
    ELSE [active_window_id |-> IF truthy(Get(ws, "is_active", None))
                               THEN Get(ws, "active_window_id", None)
                               ELSE info.active_window_id,
          workspace_indices |-> info.workspace_indices \cup { Get(ws, "idx", PyInt(0)).n },
          is_focused |-> info.is_focused \/ truthy(Get(ws, "is_focused", None))]

RECURSIVE each_workspace(_, _, _)
each_workspace(info, wss, monitor_name) ==
    IF wss = <<>> THEN info
    ELSE each_workspace(info_after(info, Head(wss), monitor_name), Tail(wss), monitor_name)

\* Lines 48-55: the dict get_workspace_info returns.
info_dict(info) ==
    Dict([active_window_id |-> info.active_window_id,
          last_workspace_idx |-> IF info.workspace_indices = {} THEN PyInt(0)
                                 ELSE PyInt(CHOOSE x \in info.workspace_indices :
                                                \A y \in info.workspace_indices : x >= y),
          focused |-> PyBool(info.is_focused)])

\* get_workspace_info(monitor_name), given what send_request("Workspaces")
\* returned: `for ws in None` raises TypeError.
get_workspace_info(monitor_name, workspaces) ==
    IF workspaces.t # "list" THEN Raise("TypeError")
    ELSE Ok(info_dict(each_workspace(
                [active_window_id |-> None, workspace_indices |-> {}, is_focused |-> FALSE],
                workspaces.items, monitor_name)))

\* The actions of move_to_glance (lines 141-150) and move_to_primary (lines
\* 102-123), as the dicts passed to send_action.
FocusMonitor(output) ==
    Dict1(<<"F", "o", "c", "u", "s", "M", "o", "n", "i", "t", "o", "r">>,
          Dict1(<<"o", "u", "t", "p", "u", "t">>, output))
SetWorkspaceName(name, index) ==
    Dict1(<<"S", "e", "t", "W", "o", "r", "k", "s", "p", "a", "c", "e", "N", "a", "m", "e">>,
          Dict2(<<"n", "a", "m", "e">>, name,
                <<"r", "e", "f", "e", "r", "e", "n", "c", "e">>, Dict1(<<"I", "n", "d", "e", "x">>, index)))
SetWindowWidth(window_id, proportion) ==
    Dict1(<<"S", "e", "t", "W", "i", "n", "d", "o", "w", "W", "i", "d", "t", "h">>,
          Dict2(<<"i", "d">>, window_id,
                <<"c", "h", "a", "n", "g", "e">>,
                Dict1(<<"S", "e", "t", "P", "r", "o", "p", "o", "r", "t", "i", "o", "n">>,
                      [t |-> "float", n |-> proportion])))
MoveColumnToWorkspace(name) ==
    Dict1(<<"M", "o", "v", "e", "C", "o", "l", "u", "m", "n", "T", "o", 
            "W", "o", "r", "k", "s", "p", "a", "c", "e">>,
          Dict2(<<"r", "e", "f", "e", "r", "e", "n", "c", "e">>, Dict1(<<"N", "a", "m", "e">>, name),
                <<"f", "o", "c", "u", "s">>, PyBool(TRUE)))
UnsetWorkspaceName(name) ==
    Dict1(<<"U", "n", "s", "e", "t", "W", "o", "r", "k", "s", "p", "a", "c", "e", "N", "a", "m", "e">>,
          Dict1(<<"r", "e", "f", "e", "r", "e", "n", "c", "e">>, Dict1(<<"N", "a", "m", "e">>, name)))
SetColumnWidth(width) ==
    Dict1(<<"S", "e", "t", "C", "o", "l", "u", "m", "n", "W", "i", "d", "t", "h">>,
          Dict1(<<"c", "h", "a", "n", "g", "e">>, Dict1(<<"S", "e", "t", "F", "i", "x", "e", "d">>, width)))
MoveColumnToWorkspaceUp ==
    Dict1(<<"M", "o", "v", "e", "C", "o", "l", "u", "m", "n", "T", "o", 
            "W", "o", "r", "k", "s", "p", "a", "c", "e", "U", "p">>,
          Dict1(<<"f", "o", "c", "u", "s">>, PyBool(TRUE)))
MoveColumnToIndex(index) ==
    Dict1(<<"M", "o", "v", "e", "C", "o", "l", "u", "m", "n", "T", "o", "I", "n", "d", "e", "x">>,
          Dict1(<<"i", "n", "d", "e", "x">>, index))

\* The socket of the k-th send_action of an invocation: the one numbered `bad`
\* is refused, the others are answered {"Ok": "Handled"}.
socket_of(k, bad) ==
    IF k = bad THEN Transport("ConnectionRefusedError", "ok", "ok", NotJson)
    ELSE Transport("ok", "ok", "ok", Json(Dict1(KeyOk, Str(TextHandled))))

\* What a run of send_action calls leaves: the exception that ended it ("none"
\* if none did) and the actions passed to send_action.
Sent(e, actions) == [exc |-> e, sent |-> actions]

\* niri.send_action(action) after `before`, unless an exception has ended the run.
send_next(before, action, bad) ==
    IF before.exc # "none" THEN before
    ELSE Sent(send_action(action, socket_of(Len(before.sent) + 1, bad)).out.exc,
              Append(before.sent, action))

\* niri.send_action of each action of a list, in order.
RECURSIVE send_each(_, _, _)
send_each(before, actions, bad) ==
    IF actions = <<>> THEN before
    ELSE send_each(send_next(before, Head(actions), bad), Tail(actions), bad)

\* What an operation of the glancer leaves: the exception that ended it or the
\* bool it returned, the actions it sent, and the state file.
Outcome(e, ret, actions, file) == [exc |-> e, ret |-> ret, sent |-> actions, file |-> file]

\* Mutant of primary_actions: the saved secondary window is focused last.
primary_actions_secondary_last(window_id, saved) ==
    << UnsetWorkspaceName(GLANCE_WORKSPACE_NAME), FocusWindow(window_id.n) >>
    \o (IF truthy(saved.saved_width) THEN << SetColumnWidth(saved.saved_width) >> ELSE <<>>)
    \o << MoveColumnToWorkspaceUp, MoveColumnToWorkspace(PRIMARY_WORKSPACE) >>
    \o (IF saved.saved_column # None THEN << MoveColumnToIndex(saved.saved_column) >> ELSE <<>>)
    \o << FocusWindow(window_id.n) >>
    \o (IF saved.saved_secondary_window_id # None
        THEN << FocusWindow(saved.saved_secondary_window_id.n) >> ELSE <<>>)

\* Lines 102-123: the actions of move_to_primary for the window window_id and
\* the saved values.
primary_actions(window_id, saved) ==
    << UnsetWorkspaceName(GLANCE_WORKSPACE_NAME), FocusWindow(window_id.n) >>
    \o (IF truthy(saved.saved_width) THEN << SetColumnWidth(saved.saved_width) >> ELSE <<>>)
    \o << MoveColumnToWorkspaceUp, MoveColumnToWorkspace(PRIMARY_WORKSPACE) >>
    \o (IF saved.saved_column # None THEN << MoveColumnToIndex(saved.saved_column) >> ELSE <<>>)
    \o (IF saved.saved_secondary_window_id # None
        THEN << FocusWindow(saved.saved_secondary_window_id.n) >> ELSE <<>>)
    \o << FocusWindow(window_id.n) >>

\* Mutant of primary_saved: the saved secondary window stays in the record.
primary_saved_keeps_secondary(done, file) ==
    IF done.exc # "none" THEN Outcome(done.exc, None, done.sent, file)
    ELSE Outcome("none", PyBool(TRUE), done.sent,
                 save_state(Str(primary), None, None,
                            get_current_state(load_state(file)).val.saved_secondary_window_id))

\* Lines 125-126 after the actions: save_state("primary"), return True.
primary_saved(done, file) ==
    IF done.exc # "none" THEN Outcome(done.exc, None, done.sent, file)
    ELSE Outcome("none", PyBool(TRUE), done.sent, save_state(Str(primary), None, None, None))

\* Lines 99-126: move_to_primary once the target window is found; `current` is
\* what get_current_state() gave.
primary_found(window_id, current, file, bad) ==
    IF Raised(current) THEN Outcome(current.exc, None, <<>>, file)
    ELSE primary_saved(send_each(Sent("none", <<>>), primary_actions(window_id, current.val), bad),
                       file)

\* Lines 141-147: the first actions of move_to_glance.
glance_actions(window_id, secondary_info) ==
    << FocusMonitor(SECONDARY_MONITOR_NAME),
       SetWorkspaceName(GLANCE_WORKSPACE_NAME, secondary_info.items.last_workspace_idx),
       FocusWindow(window_id.n),
       SetWindowWidth(window_id, 100),
       MoveColumnToWorkspace(GLANCE_WORKSPACE_NAME) >>

\* Lines 149-150: the focus goes back to the window that had it, unless the
\* secondary monitor had it; focused_window_info["id"] raises TypeError on None.
refocus(done, secondary_info, focused_window_info, bad) ==
    IF done.exc # "none" \/ truthy(secondary_info.items.focused) THEN done
    ELSE IF focused_window_info.t # "dict" THEN Sent("TypeError", done.sent)
    ELSE IF "id" \notin DOMAIN focused_window_info.items THEN Sent("KeyError", done.sent)
    ELSE send_next(done, FocusWindow(focused_window_info.items.id.n), bad)

\* Mutant of glance_saved: the state is saved though an exception ended the actions.
glance_saved_on_fault(done, found, secondary_info, file) ==
    Outcome(done.exc, IF done.exc = "none" THEN PyBool(TRUE) ELSE None, done.sent,
            save_state(Str(glance), found.column, found.width,
                       secondary_info.items.active_window_id))

\* Lines 153-154 after the actions: save_state("glance", ...), return True.
glance_saved(done, found, secondary_info, file) ==
    IF done.exc # "none" THEN Outcome(done.exc, None, done.sent, file)
    ELSE Outcome("none", PyBool(TRUE), done.sent,
                 save_state(Str(glance), found.column, found.width,
                            secondary_info.items.active_window_id))

\* Lines 136-154: move_to_glance once the target window is found;
\* `secondary_info` is what get_workspace_info(SECONDARY_MONITOR_NAME) gave and
\* focused_window_info what send_request("FocusedWindow") returned.
glance_found(found, secondary_info, focused_window_info, file, bad) ==
    IF Raised(secondary_info) THEN Outcome(secondary_info.exc, None, <<>>, file)
    ELSE glance_saved(refocus(send_each(Sent("none", <<>>),
                                        glance_actions(found.id, secondary_info.val), bad),
                              secondary_info.val, focused_window_info, bad),
                      found, secondary_info.val, file)

\* Mutant of toggle_dispatch: the two branches are exchanged.
toggle_dispatch_exchanged(state) == IF state = Str(primary) THEN "primary" ELSE "glance"

\* Lines 158-164: the operation toggle() dispatches to.
toggle_dispatch(state) == IF state = Str(primary) THEN "glance" ELSE "primary"

\* The sockets a request of a workflow meets: the compositor answers
\* {"Ok": {name: value}}, or the connection is refused.
NameFocusedWindow == <<"F", "o", "c", "u", "s", "e", "d", "W", "i", "n", "d", "o", "w">>
Answered(name, value) == Transport("ok", "ok", "ok", Json(Dict1(KeyOk, Dict1(name, value))))
Refused == Transport("ConnectionRefusedError", "ok", "ok", NotJson)

GlancerWindowsSockets ==
    { Answered(NameWindows, List(ws)) : ws \in GlancerWindowLists } \cup { Refused }
GlancerWorkspacesSockets ==
    { Answered(NameWorkspaces, List(wss)) : wss \in GlancerWorkspaceLists } \cup { Refused }
FocusedWindowSockets ==
    { Answered(NameFocusedWindow, GlancerWindow(1, Str(Fx), Tiled(1), 800)),
      Answered(NameFocusedWindow, None),
      Refused }

\* niri.send_request(name) on the socket tr: what it returned.
requested(name, tr) == send_request(Str(name), TRUE, tr).out.val

\* The send_action calls of an invocation one of which can be refused: the
\* first MaxFail.
MaxFail == 3

\* sys.argv[1:] of window-glancer: a command, nothing, or another word.
GlancerArgs == { "primary", "glance", "toggle", "", "status" }

\* A value not assigned yet.
Unset == [t |-> "unset"]

\* What the requests of an invocation returned (Unset: not requested).
Replies3(ws, wss, fw) == [windows |-> ws, workspaces |-> wss, focused |-> fw]

\* An invocation of window-glancer at the position pc: its arguments, the
\* operation it runs, the state file it found, what its requests returned, what
\* find_target_window() gave, and how the operation and the process ended.
Glancer(pc_, cmd, op, before, replies, found, o, exit_) ==
    [script |-> "window-glancer", pc |-> pc_, cmd |-> cmd, op |-> op, before |-> before,
     replies |-> replies, found |-> found, exc |-> o.exc, ret |-> o.ret, exit |-> exit_]

\* main() has ended, the operation having left `o`; lines 191-192 and the
\* interpreter give the exit status (an exception that leaves main() ends the
\* process with 1).
glancer_exited(r, replies, found, o) ==
    Glancer("exited", r.cmd, r.op, r.before, replies, found, o,
            IF o.exc = "none" /\ o.ret = PyBool(TRUE) THEN 0 ELSE 1)

\* Lines 172-189 for the arguments cmd, with `current` what get_current_state()
\* gives: the usage error, or the operation to run.
glancer_started(cmd, file, current) ==
    IF cmd \notin { "primary", "glance", "toggle", "" }
    THEN Glancer("exited", cmd, "usage", file,
                 Replies3(Unset, Unset, Unset), Unset, Outcome("none", Unset, <<>>, file), 1)
    ELSE IF cmd \in { "primary", "glance" }
    THEN Glancer("find_target_window", cmd, cmd, file,
                 Replies3(Unset, Unset, Unset), Unset, Outcome("none", Unset, <<>>, file), -1)
    ELSE IF Raised(current)
    THEN Glancer("exited", cmd, "toggle", file,
                 Replies3(Unset, Unset, Unset), Unset, Outcome(current.exc, Unset, <<>>, file), 1)
    ELSE Glancer("find_target_window", cmd, toggle_dispatch(current.val.state), file,
                 Replies3(Unset, Unset, Unset), Unset, Outcome("none", Unset, <<>>, file), -1)

InitGlancer ==
    /\ FloatIdle
    /\ call = NoCall
    /\ result = NoCall
    /\ sock = <<>>
    /\ state_file \in FilesBefore
    /\ run = NoRun
    /\ sent_actions = <<>>
    /\ spawned = <<>>

\* window-glancer is started: the module is imported (the state file is made
\* sure of) and main() runs up to the operation's find_target_window().
GlancerStart ==
    /\ run.script = "none" \/ (run.script = "window-glancer" /\ run.pc = "exited")
    /\ \E cmd \in GlancerArgs, write_ok \in BOOLEAN :
          \E file \in { ensure_state_file(state_file, write_ok) } :
             /\ state_file' = file
             /\ run' = glancer_started(cmd, file, get_current_state(load_state(file)))
    /\ sent_actions' = <<>>
    /\ UNCHANGED <<floatVars, callVars, spawned>>

\* The operation ends without its target: find_target_window() raised, or
\* found no window.
glancer_no_target(found) ==
    IF Raised(found) THEN Outcome(found.exc, Unset, <<>>, state_file)
    ELSE Outcome("none", PyBool(FALSE), <<>>, state_file)

\* find_target_window() of the operation; without a target the operation ends,
\* with one move_to_primary runs to its end and move_to_glance goes on to
\* get_workspace_info().
GlancerFind ==
    /\ run.script = "window-glancer"
    /\ run.pc = "find_target_window"
    /\ \E tr \in GlancerWindowsSockets, bad \in 0..MaxFail :
          \E ws \in { requested(NameWindows, tr) } :
          \E found \in { find_target_window(ws) } :
             IF Raised(found) \/ ~truthy(found.val.id)
             THEN /\ bad = 0
                  /\ run' = glancer_exited(run, Replies3(ws, Unset, Unset), found,
                                           glancer_no_target(found))
                  /\ UNCHANGED <<state_file, sent_actions>>
             ELSE IF run.op = "primary"
             THEN \E o \in { primary_found(found.val.id, get_current_state(load_state(state_file)),
                                           state_file, bad) } :
                     /\ run' = glancer_exited(run, Replies3(ws, Unset, Unset), found, o)
                     /\ state_file' = o.file
                     /\ sent_actions' = o.sent
             ELSE /\ bad = 0
                  /\ run' = [run EXCEPT !.pc = "get_workspace_info", !.found = found,
                                        !.replies = Replies3(ws, Unset, Unset)]
                  /\ UNCHANGED <<state_file, sent_actions>>
    /\ UNCHANGED <<floatVars, callVars, spawned>>

\* move_to_glance from get_workspace_info() to its end.
GlancerInfo ==
    /\ run.script = "window-glancer"
    /\ run.pc = "get_workspace_info"
    /\ \E trW \in GlancerWorkspacesSockets, trF \in FocusedWindowSockets, bad \in 0..MaxFail :
          \E wss \in { requested(NameWorkspaces, trW) } :
          \E fw \in { IF wss = None THEN Unset ELSE requested(NameFocusedWindow, trF) } :
          \E o \in { glance_found(run.found.val,
                                  get_workspace_info(SECONDARY_MONITOR_NAME, wss),
                                  fw, state_file, bad) } :
             /\ run' = glancer_exited(run, Replies3(run.replies.windows, wss, fw), run.found, o)
             /\ state_file' = o.file
             /\ sent_actions' = o.sent
    /\ UNCHANGED <<floatVars, callVars, spawned>>

NextGlancer == GlancerStart \/ GlancerFind \/ GlancerInfo

SpecGlancer == InitGlancer /\ [][NextGlancer]_vars

----------------------------------------------------------------------------
(* Two invocations of `window-glancer toggle` at the same time *)

\* The two processes.
Togglers == {1, 2}

\* One of them: its position, the state toggle() read, the operation it runs,
\* the actions it has still to send, and what the operation leaves at its end
\* (the exception or result, and the record it saves).
Toggler(pc_, state, op, todo, o) ==
    [pc |-> pc_, state |-> state, op |-> op, todo |-> todo,
     exc |-> o.exc, ret |-> o.ret, file |-> o.file]

\* The pair of processes, started on the state file `before`.
Race(before, procs) == [script |-> "two toggles", before |-> before, procs |-> procs]

\* The window lists with the target window and the focused windows the
\* compositor answers the two with.
RaceWindowLists ==
    { << GlancerWindow(1, Str(SpSong), Tiled(1), 800) >>,
      << GlancerWindow(1, Str(Fx), Tiled(1), 800), GlancerWindow(2, Str(SpSong), Tiled(3), 1200) >> }
RaceFocusedWindows == { GlancerWindow(1, Str(Fx), Tiled(1), 800), None }

InitRace ==
    /\ FloatIdle
    /\ call = NoCall
    /\ result = NoCall
    /\ sock = <<>>
    /\ state_file \in { save_state(Str(primary), None, None, None),
                        save_state(Str(glance), PyInt(1), PyInt(800), None) }
    /\ run = Race(state_file,
                  [ i \in Togglers |->
                      Toggler("toggle", Unset, "toggle", <<>>,
                              Outcome("none", Unset, <<>>, state_file)) ])
    /\ sent_actions = <<>>
    /\ spawned = <<>>

\* Lines 158-159: toggle() of process i reads the state; nothing holds the
\* other process back meanwhile.
toggle_read(p, current) ==
    IF Raised(current)
    THEN Toggler("exited", Unset, "toggle", <<>>, Outcome(current.exc, Unset, <<>>, p.file))
    ELSE Toggler("find_target_window", current.val.state, toggle_dispatch(current.val.state),
                 <<>>, Outcome("none", Unset, <<>>, p.file))

RaceRead(i) ==
    /\ run.script = "two toggles"
    /\ run.procs[i].pc = "toggle"
    /\ run' = [run EXCEPT !.procs[i] =
                  toggle_read(run.procs[i], get_current_state(load_state(state_file)))]
    /\ UNCHANGED <<floatVars, callVars, state_file, sent_actions, spawned>>

\* The operation of process i up to its first action: find_target_window(),
\* then get_current_state() (move_to_primary, line 99) or the Workspaces and
\* FocusedWindow requests (move_to_glance, lines 136-139). What it will send and
\* save is fixed by what it has read by now.
operation_of(p, found, secondary_info, focused_window_info, file) ==
    IF p.op = "primary"
    THEN primary_found(found.id, get_current_state(load_state(file)), file, 0)
    ELSE glance_found(found, secondary_info, focused_window_info, file, 0)

RaceFind(i) ==
    /\ run.script = "two toggles"
    /\ run.procs[i].pc = "find_target_window"
    /\ \E ws \in RaceWindowLists, wss \in GlancerWorkspaceLists, fw \in RaceFocusedWindows :
          \E o \in { operation_of(run.procs[i], find_target_window(List(ws)).val,
                                  get_workspace_info(SECONDARY_MONITOR_NAME, List(wss)),
                                  fw, state_file) } :
             run' = [run EXCEPT !.procs[i] =
                        Toggler("send_action", run.procs[i].state, run.procs[i].op, o.sent, o)]
    /\ UNCHANGED <<floatVars, callVars, state_file, sent_actions, spawned>>

\* Process i sends its next action.
RaceSend(i) ==
    /\ run.script = "two toggles"
    /\ run.procs[i].pc = "send_action"
    /\ run.procs[i].todo # <<>>
    /\ sent_actions' = Append(sent_actions, [by |-> i, action |-> Head(run.procs[i].todo)])
    /\ run' = [run EXCEPT !.procs[i].todo = Tail(run.procs[i].todo)]
    /\ UNCHANGED <<floatVars, callVars, state_file, spawned>>

\* Mutant of race_saved: the record saved is the other state than the one the
\* file holds when it is written.
race_saved_by_file(p, file) ==
    IF p.ret # PyBool(TRUE) THEN file
    ELSE IF get_current_state(load_state(file)).val.state = Str(primary)
    THEN save_state(Str(glance), None, None, None)
    ELSE save_state(Str(primary), None, None, None)

\* Lines 125 and 153: the operation that sent its last action saves its record
\* over what the file holds; an operation that an exception ended saves nothing.
race_saved(p, file) == IF p.ret = PyBool(TRUE) THEN p.file ELSE file

\* The end of the operation of process i.
RaceEnd(i) ==
    /\ run.script = "two toggles"
    /\ run.procs[i].pc = "send_action"
    /\ run.procs[i].todo = <<>>
    /\ state_file' = race_saved(run.procs[i], state_file)
    /\ run' = [run EXCEPT !.procs[i].pc = "exited"]
    /\ UNCHANGED <<floatVars, callVars, sent_actions, spawned>>

NextRace == \E i \in Togglers : RaceRead(i) \/ RaceFind(i) \/ RaceSend(i) \/ RaceEnd(i)

SpecRace == InitRace /\ [][NextRace]_vars

----------------------------------------------------------------------------
(* modules/niri/launch_music.py *)

\* config.toml of launch-music: three apps.
APP_ID_STRINGS == << Str(<<"a">>), Str(<<"b">>), Str(<<"c">>) >>
PROFILE_SUFFIX == Str(<<"P", "_", "1">>)
WORKSPACE_NAME == Str(<<"h", "o", "m", "e">>)

\* Line 44: f"brave-{id_str}-{PROFILE_SUFFIX}"
niri_app_id(id_str) ==
    Str(<<"b", "r", "a", "v", "e", "-">> \o id_str.s \o <<"-">> \o PROFILE_SUFFIX.s)

\* The workspace lists the compositor answers Workspaces with: without and with
\* the workspace named WORKSPACE_NAME (its id is 5).
MusicWorkspaceLists ==
    { << Workspace(1, 1, PRIMARY_WORKSPACE, PRIMARY_MONITOR_NAME, TRUE, TRUE, None) >>,
      << Workspace(1, 1, PRIMARY_WORKSPACE, PRIMARY_MONITOR_NAME, TRUE, TRUE, None),
         Workspace(5, 2, WORKSPACE_NAME, PRIMARY_MONITOR_NAME, FALSE, FALSE, None) >> }

\* Where the window of an app is when the compositor lists its windows: not
\* open; tiled on workspace 5 (the k-th app's window has id k); tiled there
\* after being closed and opened again (id 10 + k); floating there; tiled on
\* workspace 1.
Places == { "closed", "tiled", "reopened", "floating", "elsewhere" }

\* The Window of the k-th app at that place, with its layout if the compositor
\* reports one; the columns go from right to left.
MusicWindow(k, place, with_layout) ==
    Dict([ key \in {"id", "app_id", "workspace_id", "is_floating"}
                   \cup (IF with_layout THEN {"layout"} ELSE {}) |->
           IF key = "id" THEN PyInt(IF place = "reopened" THEN 10 + k ELSE k)
           ELSE IF key = "app_id" THEN niri_app_id(APP_ID_STRINGS[k])
           ELSE IF key = "workspace_id" THEN PyInt(IF place = "elsewhere" THEN 1 ELSE 5)
           ELSE IF key = "is_floating" THEN PyBool(place = "floating")
           ELSE Dict([pos_in_scrolling_layout |->
                        IF place = "floating" THEN None
                        ELSE List(<< PyInt(Len(APP_ID_STRINGS) + 1 - k), PyInt(1) >>)]) ])

\* The window list of a scene (the place of each app's window), in app order.
RECURSIVE windows_listed(_, _, _)
windows_listed(scene, k, with_layout) ==
    IF k > Len(scene) THEN <<>>
    ELSE (IF scene[k] = "closed" THEN <<>> ELSE << MusicWindow(k, scene[k], with_layout) >>)
         \o windows_listed(scene, k + 1, with_layout)

\* The sockets send_request("Windows") meets in launch-music.
MusicWindowsSockets(places, with_layout) ==
    { Answered(NameWindows, List(windows_listed(scene, 1, with_layout))) :
        scene \in [1..Len(APP_ID_STRINGS) -> places] } \cup { Refused }
MusicWorkspacesSockets ==
    { Answered(NameWorkspaces, List(wss)) : wss \in MusicWorkspaceLists } \cup { Refused }

\* Lines 53-57: the id of the first workspace named WORKSPACE_NAME, None
\* without one.
RECURSIVE find_workspace_id(_)
find_workspace_id(wss) ==
    IF wss = <<>> THEN None
    ELSE IF Get(Head(wss), "name", None) = WORKSPACE_NAME THEN Get(Head(wss), "id", None)
    ELSE find_workspace_id(Tail(wss))

\* Mutant of is_app_window: a floating window passes.
is_app_window_floating_too(window, app_id, workspace_id) ==
    /\ Get(window, "app_id", None) = app_id
    /\ Get(window, "workspace_id", None) = workspace_id

\* Lines 73-75 and 135-137: the window is the app's, on the workspace, tiled.
is_app_window(window, app_id, workspace_id) ==
    /\ Get(window, "app_id", None) = app_id
    /\ Get(window, "workspace_id", None) = workspace_id
    /\ ~truthy(Get(window, "is_floating", None))

\* Lines 72-77 and 134-142: the id of the first window of the list that is the
\* app's, None without one.
RECURSIVE first_app_window(_, _, _)
first_app_window(wins, app_id, workspace_id) ==
    IF wins = <<>> THEN None
    ELSE IF is_app_window(Head(wins), app_id, workspace_id) THEN Head(wins).items.id
    ELSE first_app_window(Tail(wins), app_id, workspace_id)

\* window_map and apps_to_launch.
Sorted(window_map, apps_to_launch) == [window_map |-> window_map, apps_to_launch |-> apps_to_launch]

\* Lines 79-85: the app goes to window_map with the id found, to apps_to_launch
\* without one.
sort_app(sorted, id_str, win_id) ==
    IF win_id # None
    THEN Sorted(Append(sorted.window_map, [app |-> id_str, id |-> win_id]), sorted.apps_to_launch)
    ELSE Sorted(sorted.window_map, Append(sorted.apps_to_launch, id_str))

\* Lines 66-85: the loop over APP_ID_STRINGS.
RECURSIVE classify(_, _, _, _)
classify(sorted, ids, wins, workspace_id) ==
    IF ids = <<>> THEN sorted
    ELSE classify(sort_app(sorted, Head(ids),
                           first_app_window(wins, niri_app_id(Head(ids)), workspace_id)),
                  Tail(ids), wins, workspace_id)

\* `id_str in window_map`
in_map(window_map, id_str) == \E i \in 1..Len(window_map) : window_map[i].app = id_str

\* Lines 132-142: the app gets the id of its window unless it has one or has
\* no window.
found_new(window_map, id_str, win_id) ==
    IF in_map(window_map, id_str) \/ win_id = None THEN window_map
    ELSE Append(window_map, [app |-> id_str, id |-> win_id])

\* Lines 131-142: the loop over apps_to_launch.
RECURSIVE poll_found(_, _, _, _)
poll_found(window_map, ids, wins, workspace_id) ==
    IF ids = <<>> THEN window_map
    ELSE poll_found(found_new(window_map, Head(ids),
                              first_app_window(wins, niri_app_id(Head(ids)), workspace_id)),
                    Tail(ids), wins, workspace_id)


\* Lines 151-155: the windows of the configured apps on the workspace, tiled.
target_windows(wins, workspace_id) ==
    SelectSeq(wins, LAMBDA window :
        /\ \E k \in 1..Len(APP_ID_STRINGS) :
              Get(window, "app_id", None) = niri_app_id(APP_ID_STRINGS[k])
        /\ Get(window, "workspace_id", None) = workspace_id
        /\ ~truthy(Get(window, "is_floating", None)))

\* Line 162, the key: w['layout']['pos_in_scrolling_layout'][0]
column_key(w) ==
    IF "layout" \notin DOMAIN w.items THEN Raise("KeyError")
    ELSE IF "pos_in_scrolling_layout" \notin DOMAIN w.items.layout.items THEN Raise("KeyError")
    ELSE IF w.items.layout.items.pos_in_scrolling_layout = None THEN Raise("TypeError")
    ELSE Ok(w.items.layout.items.pos_in_scrolling_layout.items[1])

\* Mutant of leftmost: the first of the windows, whatever its column.
leftmost_is_first(best, wins) ==
    IF wins = <<>> THEN Ok(best)
    ELSE IF Raised(column_key(Head(wins))) THEN column_key(Head(wins))
    ELSE Ok(Head(wins))

\* Line 162: min(target_windows, key=...), with `best` the least so far (None
\* at the start); the first key that cannot be read raises.
RECURSIVE leftmost(_, _)
leftmost(best, wins) ==
    IF wins = <<>> THEN Ok(best)
    ELSE IF Raised(column_key(Head(wins))) THEN column_key(Head(wins))
    ELSE IF best = None THEN leftmost(Head(wins), Tail(wins))
    ELSE IF column_key(Head(wins)).val.n < column_key(best).val.n
         THEN leftmost(Head(wins), Tail(wins))
    ELSE leftmost(best, Tail(wins))

FocusWorkspace(name) ==
    Dict1(<<"F", "o", "c", "u", "s", "W", "o", "r", "k", "s", "p", "a", "c", "e">>, name)
ConsumeWindowIntoColumn ==
    Dict1(<<"C", "o", "n", "s", "u", "m", "e", "W", "i", "n", "d", "o", "w", "I", "n", "t", "o">>
          \o <<"C", "o", "l", "u", "m", "n">>, EmptyDict)
ToggleWindowRuleOpacity ==
    Dict1(<<"T", "o", "g", "g", "l", "e", "W", "i", "n", "d", "o", "w", "R", "u", "l", "e">>
          \o <<"O", "p", "a", "c", "i", "t", "y">>, EmptyDict)

\* Lines 192-194: the reveal of each window of window_map, in its order.
RECURSIVE reveal(_)
reveal(window_map) ==
    IF window_map = <<>> THEN <<>>
    ELSE << FocusWindow(Head(window_map).id.n), ToggleWindowRuleOpacity >>
         \o reveal(Tail(window_map))

\* Mutant of burst: the stack is not moved to the first column.
burst_unmoved(leftmost_id, window_map) ==
    << FocusWindow(leftmost_id.n) >>
    \o [i \in 1..(Len(APP_ID_STRINGS) - 1) |-> ConsumeWindowIntoColumn]
    \o reveal(window_map)
    \o << FocusWindow(leftmost_id.n) >>

\* Lines 178-195: the actions of the burst.
burst(leftmost_id, window_map) ==
    << FocusWindow(leftmost_id.n) >>
    \o [i \in 1..(Len(APP_ID_STRINGS) - 1) |-> ConsumeWindowIntoColumn]
    \o << MoveColumnToFirst >>
    \o reveal(window_map)
    \o << FocusWindow(leftmost_id.n) >>

\* window_map.get(id_str)
map_get(window_map, id_str) ==
    IF in_map(window_map, id_str)
    THEN window_map[CHOOSE i \in 1..Len(window_map) : window_map[i].app = id_str].id
    ELSE None

\* Mutant of already_running: the first app is not focused.
already_running_workspace_only(window_map) == << FocusWorkspace(WORKSPACE_NAME) >>

\* Lines 93-99: the actions sent when no app is missing.
already_running(window_map) ==
    << FocusWorkspace(WORKSPACE_NAME) >>
    \o (IF truthy(map_get(window_map, APP_ID_STRINGS[1]))
        THEN << FocusWindow(map_get(window_map, APP_ID_STRINGS[1]).n) >>
        ELSE <<>>)

\* The loop of line 122 is left after MaxPolls turns at the latest (the
\* timeout).
MaxPolls == 2


\* Mutant of slept: no time passes in a turn of the loop.
slept_no_time(polls) == polls

\* Line 128: time.sleep(0.2); the turns of the loop measure the time that has
\* passed since start_time.
slept(polls) == polls + 1

\* Line 123: time.time() - start_time > WAIT_TIMEOUT_SECONDS can hold at any
\* turn (the requests take time too) and holds once MaxPolls sleeps have passed.
timeout_passed(polls) == { b \in BOOLEAN : polls >= MaxPolls => b }

\* Mutant of launch: every configured app is launched.
launch_every_app(apps_to_launch) == APP_ID_STRINGS

\* Lines 108-117: the apps subprocess.Popen is called for, in order.
launch(apps_to_launch) == apps_to_launch

\* What lines 146-201 give: the value main() returns and the actions to send.
Stacked(ret, actions) == [ret |-> ret, actions |-> actions]

\* Mutant of stack: the workspace is focused before the windows are counted.
stack_focuses_first(wins, workspace_id, window_map) ==
    IF Len(target_windows(wins, workspace_id)) # Len(APP_ID_STRINGS)
    THEN Stacked(1, << FocusWorkspace(WORKSPACE_NAME) >>)
    ELSE IF Raised(leftmost(None, target_windows(wins, workspace_id))) THEN Stacked(1, <<>>)
    ELSE Stacked(0, burst(leftmost(None, target_windows(wins, workspace_id)).val.items.id,
                          window_map))

\* Lines 149-201 for the window list `wins`.
stack(wins, workspace_id, window_map) ==
    IF Len(target_windows(wins, workspace_id)) # Len(APP_ID_STRINGS) THEN Stacked(1, <<>>)
    ELSE IF Raised(leftmost(None, target_windows(wins, workspace_id))) THEN Stacked(1, <<>>)
    ELSE Stacked(0, burst(leftmost(None, target_windows(wins, workspace_id)).val.items.id,
                          window_map))

\* An invocation of launch-music at the position pc: what Workspaces returned,
\* the id of the workspace, window_map and apps_to_launch, the window_map of one
\* step ago, what the last Windows request returned, whether Popen started the
\* children, the turns of the loop done, and how the process ended.
Music(pc_, wss, workspace_id, sorted, was, wins, popen, polls, e, exit_) ==
    [script |-> "launch-music", pc |-> pc_, workspaces |-> wss, workspace_id |-> workspace_id,
     window_map |-> sorted.window_map, apps_to_launch |-> sorted.apps_to_launch,
     was |-> was, windows |-> wins, popen |-> popen, polls |-> polls, exc |-> e, exit |-> exit_]

\* The process has ended: by a return of main() (line 204) or by the exception e.
music_exited(r, wins, e, ret) ==
    Music("exited", r.workspaces, r.workspace_id, Sorted(r.window_map, r.apps_to_launch),
          r.was, wins, r.popen, r.polls, e, IF e = "none" THEN ret ELSE 1)

\* The invocation goes on at pc with the window_map given.
music_at(pc_, r, window_map, wins, popen, polls) ==
    Music(pc_, r.workspaces, r.workspace_id, Sorted(window_map, r.apps_to_launch),
          r.window_map, wins, popen, polls, "none", Unset)

\* Lines 32-62: the invocation after get_niri_state() and the search for the
\* workspace.
music_started(wss, wins) ==
    Music(IF wss = None \/ find_workspace_id(wss.items) = None THEN "exited" ELSE "classify",
          wss, IF wss = None THEN Unset ELSE find_workspace_id(wss.items), Sorted(<<>>, <<>>),
          <<>>, wins, "not called", 0,
          IF wss = None THEN "TypeError" ELSE "none",
          IF wss = None \/ find_workspace_id(wss.items) = None THEN 1 ELSE Unset)

InitMusic ==
    /\ FloatIdle
    /\ call = NoCall
    /\ result = NoCall
    /\ sock = <<>>
    /\ FlowIdle

\* Lines 30-62: main() up to the workspace, the windows being at `places`.
MusicStartOn(places) ==
    /\ run = NoRun
    /\ \E wtr \in MusicWorkspacesSockets, tr \in MusicWindowsSockets(places, TRUE) :
          run' = music_started(requested(NameWorkspaces, wtr), requested(NameWindows, tr))
    /\ UNCHANGED <<floatVars, call, result, sock, state_file, sent_actions, spawned>>

\* Lines 64-104: the apps are sorted; with none missing the workspace and the
\* first app are focused and main() returns 0.
MusicClassify ==
    /\ run.script = "launch-music"
    /\ run.pc = "classify"
    /\ \E bad \in 0..MaxFail :
          IF run.windows = None
          THEN /\ run' = music_exited(run, run.windows, "TypeError", 1)
               /\ UNCHANGED sent_actions
          ELSE \E sorted \in { classify(Sorted(<<>>, <<>>), APP_ID_STRINGS,
                                        run.windows.items, run.workspace_id) } :
                  IF sorted.apps_to_launch # <<>>
                  THEN /\ run' = Music("launch", run.workspaces, run.workspace_id, sorted,
                                       <<>>, run.windows, "not called", 0, "none", Unset)
                       /\ UNCHANGED sent_actions
                  ELSE \E o \in { send_each(Sent("none", <<>>),
                                            already_running(sorted.window_map), bad) } :
                          /\ run' = Music("exited", run.workspaces, run.workspace_id, sorted,
                                          <<>>, run.windows, "not called", 0, o.exc,
                                          IF o.exc = "none" THEN 0 ELSE 1)
                          /\ sent_actions' = o.sent
    /\ UNCHANGED <<floatVars, call, result, sock, state_file, spawned>>

\* Lines 106-120: Popen is called for each missing app; an OSError is logged.
MusicLaunch ==
    /\ run.script = "launch-music"
    /\ run.pc = "launch"
    /\ \E popen \in { "started", "OSError" } :
          run' = music_at("wait", run, run.window_map, run.windows, popen, 0)
    /\ spawned' = launch(run.apps_to_launch)
    /\ UNCHANGED <<floatVars, call, result, sock, state_file, sent_actions>>

\* Lines 122-126: the test of the loop and the timeout, which has passed after
\* MaxPolls turns if not before.
MusicWait ==
    /\ run.script = "launch-music"
    /\ run.pc = "wait"
    /\ IF Len(run.window_map) >= Len(APP_ID_STRINGS)
       THEN run' = music_at("assemble", run, run.window_map, Unset, run.popen, run.polls)
       ELSE \E timed_out \in timeout_passed(run.polls) :
               IF timed_out
               THEN run' = music_exited(run, Unset, "none", 1)
               ELSE run' = music_at("poll", run, run.window_map, Unset, run.popen, run.polls)
    /\ UNCHANGED <<floatVars, call, result, sock, state_file, sent_actions, spawned>>

\* Lines 128-142: one turn of the loop (what the Workspaces request of
\* get_niri_state() returns is not used).
MusicPollOn(places) ==
    /\ run.script = "launch-music"
    /\ run.pc = "poll"
    /\ \E tr \in MusicWindowsSockets(places, TRUE) :
          \E wins \in { requested(NameWindows, tr) } :
             IF wins = None
             THEN run' = music_exited(run, wins, "TypeError", 1)
             ELSE run' = music_at("wait", run,
                                  poll_found(run.window_map, run.apps_to_launch,
                                             wins.items, run.workspace_id),
                                  wins, run.popen, slept(run.polls))
    /\ UNCHANGED <<floatVars, call, result, sock, state_file, sent_actions, spawned>>

\* Lines 146-204: the windows are fetched again and counted, the leftmost is
\* found, and the burst is sent.
MusicAssembleOn(places) ==
    /\ run.script = "launch-music"
    /\ run.pc = "assemble"
    /\ \E with_layout \in BOOLEAN, bad \in 0..MaxFail :
       \E tr \in MusicWindowsSockets(places, with_layout) :
          \E wins \in { requested(NameWindows, tr) } :
             IF wins = None
             THEN /\ run' = music_exited(run, wins, "TypeError", 1)
                  /\ UNCHANGED sent_actions
             ELSE \E st \in { stack(wins.items, run.workspace_id, run.window_map) } :
                  \E o \in { send_each(Sent("none", <<>>), st.actions, bad) } :
                     /\ run' = music_exited(run, wins, o.exc, st.ret)
                     /\ sent_actions' = o.sent
    /\ UNCHANGED <<floatVars, call, result, sock, state_file, spawned>>

MusicStart == MusicStartOn(Places)
MusicPoll == MusicPollOn(Places)
MusicAssemble == MusicAssembleOn(Places)

NextMusic ==
    \/ MusicStart
    \/ MusicClassify
    \/ MusicLaunch
    \/ MusicWait
    \/ MusicPoll
    \/ MusicAssemble

SpecMusic == InitMusic /\ [][NextMusic]_vars

\* The runs of main() in which each app's window is closed or tiled on the
\* workspace, every step being taken in the end (the clock advances and the
\* requests return).
OpenOrClosed == { "closed", "tiled" }
MusicStartFew == MusicStartOn(OpenOrClosed)
MusicPollFew == MusicPollOn(OpenOrClosed)
MusicAssembleFew == MusicAssembleOn(OpenOrClosed)

NextMusicFew ==
    \/ MusicStartFew
    \/ MusicClassify
    \/ MusicLaunch
    \/ MusicWait
    \/ MusicPollFew
    \/ MusicAssembleFew

FairSpecMusic == InitMusic /\ [][NextMusicFew]_vars /\ WF_vars(NextMusicFew)

----------------------------------------------------------------------------
(* Claims on window-glancer *)

\* An invocation of window-glancer has ended.
GlancerExited == run.script = "window-glancer" /\ run.pc = "exited"

\* find_target_window() returned a window: its id, column and width.
TargetFound == run.found # Unset /\ ~Raised(run.found) /\ truthy(run.found.val.id)

\* No window of the Windows reply has a title the target regex matches.
NoTitleMatches(ws) ==
    ws.t = "list" =>
        \A i \in 1..Len(ws.items) :
            \/ ws.items[i].items.title = None
            \/ re_search_IGNORECASE(WINDOW_TITLE_REGEX, ws.items[i].items.title) = Ok(FALSE)

\* C12 as claimed: when a send_request of the workflow returned None, the
\* workflow ends with a failure result (exit status other than 0) and no
\* exception leaves its entry point.
C12_FailedRequestFailsCleanly ==
    (GlancerExited /\ (\/ run.replies.windows = None
                       \/ run.replies.workspaces = None
                       \/ run.replies.focused = None))
        => (run.exc = "none" /\ run.exit # 0)

\* C13 as claimed: when no window matches the target title regex, move_to_glance,
\* move_to_primary and toggle return False, send no action and leave the state
\* file as it was.
C13_NoTargetLeavesNoTrace ==
    (GlancerExited /\ run.op \in {"primary", "glance"} /\ NoTitleMatches(run.replies.windows))
        => /\ run.exc = "none"
           /\ run.ret = PyBool(FALSE)
           /\ sent_actions = <<>>
           /\ state_file = run.before

\* The state the file `file` persists: that of its record, primary without one.
PersistedState(file) ==
    IF file.kind = "JSON text" /\ "state" \in DOMAIN file.doc.v
    THEN file.doc.v.state
    ELSE JDoc("string", primary)

\* C14: toggle runs move_to_glance when the persisted state is primary or there
\* is no record, move_to_primary for any other persisted state, whatever else
\* the record and the compositor hold, and its result is that operation's.
C14_ToggleDispatch ==
    (run.script = "window-glancer" /\ run.cmd \in {"toggle", ""})
        => /\ run.op = IF PersistedState(run.before) = JDoc("string", primary)
                       THEN "glance" ELSE "primary"
           /\ (run.pc = "exited" /\ sent_actions # <<>>)
                => sent_actions[1] = IF PersistedState(run.before) = JDoc("string", primary)
                                     THEN FocusMonitor(SECONDARY_MONITOR_NAME)
                                     ELSE UnsetWorkspaceName(GLANCE_WORKSPACE_NAME)
           /\ (run.pc = "exited" /\ run.exc = "none")
                => /\ run.ret = PyBool(TargetFound)
                   /\ run.exit = IF TargetFound THEN 0 ELSE 1

\* C14 witness: toggle on a glance record ran move_to_primary to its end.
C14_Witness ==
    /\ GlancerExited
    /\ run.cmd = "toggle"
    /\ PersistedState(run.before) = JDoc("string", glance)
    /\ sent_actions # <<>>
    /\ sent_actions[1] = UnsetWorkspaceName(GLANCE_WORKSPACE_NAME)
    /\ run.ret = PyBool(TRUE)

\* The action is one of those sent.
WasSent(action) == \E k \in 1..Len(sent_actions) : sent_actions[k] = action

\* C15 as claimed: a toggle from the persisted state primary that finds the
\* target window at column c with width w persists glance with saved_column = c
\* and saved_width = w; a toggle from a glance record holding c and w that finds
\* the target window sends SetColumnWidth SetFixed w and MoveColumnToIndex c and
\* persists primary (stated for the toggles whose Workspaces request, if they
\* made one, was answered).
C15_ToggleRoundTrip ==
    (GlancerExited /\ run.cmd \in {"toggle", ""} /\ TargetFound
       /\ run.replies.workspaces # None)
        => /\ (/\ PersistedState(run.before) = JDoc("string", primary)
               /\ run.found.val.column # None
               /\ run.found.val.width # None)
                => /\ state_file.kind = "JSON text"
                   /\ PersistedState(state_file) = JDoc("string", glance)
                   /\ state_file.doc.v.saved_column = JDoc("number", run.found.val.column.n)
                   /\ state_file.doc.v.saved_width = JDoc("number", run.found.val.width.n)
           /\ (/\ PersistedState(run.before) = JDoc("string", glance)
               /\ run.before.doc.v.saved_column # JDoc("null", 0)
               /\ run.before.doc.v.saved_width # JDoc("null", 0))
                => /\ WasSent(SetColumnWidth(PyInt(run.before.doc.v.saved_width.v)))
                   /\ WasSent(MoveColumnToIndex(PyInt(run.before.doc.v.saved_column.v)))
                   /\ PersistedState(state_file) = JDoc("string", primary)

----------------------------------------------------------------------------
(* Claims on launch-music *)

MusicExited == run.script = "launch-music" /\ run.pc = "exited"

\* The configured apps (by their place in APP_ID_STRINGS) without a tiled window
\* on the workspace in the window list `wins`.
MissingApps(wins, workspace_id) ==
    { k \in 1..Len(APP_ID_STRINGS) :
        ~ \E i \in 1..Len(wins.items) :
             /\ wins.items[i].items.app_id = niri_app_id(APP_ID_STRINGS[k])
             /\ wins.items[i].items.workspace_id = workspace_id
             /\ wins.items[i].items.is_floating = PyBool(FALSE) }

\* The launch loop has just ended; run.windows is still the list the apps were
\* sorted by.
JustLaunched == run.script = "launch-music" /\ run.pc = "wait" /\ run.polls = 0

C19_FailureSendsNothing ==
    (MusicExited /\ run.exit = 1) => sent_actions = <<>>

\* The wait for the launched apps timed out.
C19_Witness ==
    /\ MusicExited
    /\ run.exit = 1
    /\ run.exc = "none"
    /\ run.polls >= 1
    /\ spawned # <<>>
    /\ Len(run.window_map) < Len(APP_ID_STRINGS)

\* main() ended without launching, every configured app having a matching window
\* in the list the apps were sorted by.
AlreadyRunning ==
    /\ MusicExited
    /\ run.popen = "not called"
    /\ run.workspace_id \notin { Unset, None }
    /\ run.windows # None
    /\ MissingApps(run.windows, run.workspace_id) = {}

\* The id of the first window of the list that is a tiled window of the k-th
\* app on the workspace.
WindowOf(k, wins, workspace_id) ==
    wins.items[Min({ i \in 1..Len(wins.items) :
                       /\ wins.items[i].items.app_id = niri_app_id(APP_ID_STRINGS[k])
                       /\ wins.items[i].items.workspace_id = workspace_id
                       /\ wins.items[i].items.is_floating = PyBool(FALSE) })].items.id

\* C20: when every configured app already has a matching window, main() sends
\* FocusWorkspace for WORKSPACE_NAME and then FocusWindow for the window of the
\* first configured app, nothing else, starts no child, and the exit status is 0.
C20_ShortCircuit ==
    AlreadyRunning =>
        /\ sent_actions = << FocusWorkspace(WORKSPACE_NAME),
                             FocusWindow(WindowOf(1, run.windows, run.workspace_id).n) >>
        /\ spawned = <<>>
        /\ run.exit = 0

C20_Witness ==
    /\ AlreadyRunning
    /\ Len(sent_actions) = 2
    /\ run.exit = 0


\* main() ended with 0 after the wait for the launched apps.
Stacked0 == MusicExited /\ run.popen # "not called" /\ run.exit = 0

\* The configured apps' tiled windows on the workspace in the list `wins`, by
\* their place in the list.
StackWindows(wins, workspace_id) ==
    { i \in 1..Len(wins.items) :
        /\ \E k \in 1..Len(APP_ID_STRINGS) :
              wins.items[i].items.app_id = niri_app_id(APP_ID_STRINGS[k])
        /\ wins.items[i].items.workspace_id = workspace_id
        /\ wins.items[i].items.is_floating = PyBool(FALSE) }

ColumnOf(window) == window.items.layout.items.pos_in_scrolling_layout.items[1].n

\* The id of the window of the least column among them.
LeftmostId(wins, workspace_id) ==
    wins.items[CHOOSE i \in StackWindows(wins, workspace_id) :
                 \A j \in StackWindows(wins, workspace_id) :
                    ColumnOf(wins.items[i]) <= ColumnOf(wins.items[j])].items.id.n

\* C21: when main() returns 0 after stacking N apps it has sent, in this order,
\* FocusWindow(leftmost), N-1 times ConsumeWindowIntoColumn, MoveColumnToFirst,
\* for each window of window_map FocusWindow(id) and then
\* ToggleWindowRuleOpacity, and FocusWindow(leftmost): 3N+2 actions.
C21_BurstOrder ==
    Stacked0 =>
        LET N == Len(APP_ID_STRINGS)
            l == LeftmostId(run.windows, run.workspace_id)
        IN /\ Len(sent_actions) = 3 * N + 2
           /\ Len(run.window_map) = N
           /\ sent_actions[1] = FocusWindow(l)
           /\ \A i \in 2..N : sent_actions[i] = ConsumeWindowIntoColumn
           /\ sent_actions[N + 1] = MoveColumnToFirst
           /\ \A i \in 1..N :
                 /\ sent_actions[N + 2 * i] = FocusWindow(run.window_map[i].id.n)
                 /\ sent_actions[N + 2 * i + 1] = ToggleWindowRuleOpacity
           /\ sent_actions[3 * N + 2] = FocusWindow(l)

\* The stack was built of windows one of which came up during the wait, the
\* leftmost not being the first of the list.
C21_Witness ==
    /\ Stacked0
    /\ run.polls >= 1
    /\ Len(sent_actions) = 3 * Len(APP_ID_STRINGS) + 2
    /\ LeftmostId(run.windows, run.workspace_id) # run.windows.items[1].items.id.n

\* C22: every run of launch-music reaches an exit; the loop is left with every
\* configured app in window_map or with the timeout passed.
C22_AlwaysTerminates ==
    /\ <>(MusicExited /\ run.exit \in {0, 1})
    /\ [](run.script = "launch-music" /\ run.pc = "assemble"
            => Len(run.window_map) = Len(APP_ID_STRINGS))

\* The loop was left by the timeout after MaxPolls turns.
C22_Witness ==
    /\ MusicExited
    /\ run.exit = 1
    /\ run.exc = "none"
    /\ run.polls = MaxPolls


----------------------------------------------------------------------------
(* Claims on Match.matches and Rule.matches *)

RuleCalled == call.fn = "Rule.matches" /\ result # NoCall

\* The pattern is a substring of the field up to letter case.
OccursFolded(pattern, field) ==
    /\ field # None
    /\ \E i \in 0..(Len(field.s) - Len(pattern.s)) :
          \A j \in 1..Len(pattern.s) : fold_case(field.s[i + j]) = fold_case(pattern.s[j])

\* C23 as claimed: a Match whose title (or app_id) pattern is a substring of the
\* window's title (or app_id) up to letter case matches the window; here for the
\* rule whose only predicate is that Match.
C23_CaseInsensitiveMatch ==
    (/\ RuleCalled
     /\ Len(call.rule.match) = 1
     /\ call.rule.exclude = <<>>
     /\ call.rule.match[1].title # None \/ call.rule.match[1].app_id # None
     /\ call.rule.match[1].title # None
           => OccursFolded(call.rule.match[1].title, call.window.title)
     /\ call.rule.match[1].app_id # None
           => OccursFolded(call.rule.match[1].app_id, call.window.app_id))
        => result = Ok(TRUE)

\* The pattern is a substring of the field.
Occurs(pattern, field) ==
    /\ field # None
    /\ \E i \in 0..(Len(field.s) - Len(pattern.s)) :
          \A j \in 1..Len(pattern.s) : field.s[i + j] = pattern.s[j]

\* A Match matches a window: it has a pattern, and each pattern it has occurs in
\* its field.
Hit(m, window) ==
    /\ m.title # None \/ m.app_id # None
    /\ m.title # None => Occurs(m.title, window.title)
    /\ m.app_id # None => Occurs(m.app_id, window.app_id)

\* C26 as claimed: a rule with a non-empty match list matches a window iff a
\* Match of its match list matches the window and no Match of its exclude list
\* does; a Match with both patterns needs both, a Match with none never matches.
C26_MatchedAndNotExcluded ==
    (RuleCalled /\ Len(call.rule.match) > 0)
        => (result = Ok(TRUE)
              <=> /\ \E i \in 1..Len(call.rule.match) : Hit(call.rule.match[i], call.window)
                  /\ \A j \in 1..Len(call.rule.exclude) :
                        ~Hit(call.rule.exclude[j], call.window))


----------------------------------------------------------------------------
(* Claims on update_matched *)

\* The event was handled and the loop goes on; the line read is event'.
HandledStep == pc = "running" /\ pc' = "running"

\* The event carries exactly one snapshot of the id.
Once(ev, id) ==
    \/ ev.kind = "WindowOpenedOrChanged" /\ ev.window.id = id
    \/ /\ ev.kind = "WindowsChanged"
       /\ Cardinality({ i \in 1..Len(ev.windows) : ev.windows[i].id = id }) = 1

\* That snapshot.
SnapshotOf(ev, id) ==
    IF ev.kind = "WindowOpenedOrChanged" THEN ev.window
    ELSE ev.windows[CHOOSE i \in 1..Len(ev.windows) : ev.windows[i].id = id]

\* The rules (by index) that match a snapshot.
MatchingRules(w) == { r \in 1..Len(RULES) : Rule_matches(RULES[r], w) = Ok(TRUE) }

\* The actions of a sequence that are for the window id.
OfId(actions, id) == SelectSeq(actions, LAMBDA act : act.id = id)

\* The id was in the registry with matched = true.
WasMatched(id) == id \in DOMAIN windows /\ windows[id].matched

\* C25: when a snapshot takes a window's flag from false to true, update_matched
\* sends for it, once each and in this order, MoveWindowToFloating,
\* SetWindowHeight if the first matching rule's height is not 0, SetWindowWidth
\* if its width is not 0, and the two MoveFloatingWindow if it is centered; the
\* snapshot then stored has matched = true.
C25_DirectivesOnceInOrder ==
    [][HandledStep =>
         \A id \in SnapshotIds(event') :
            (/\ Once(event', id)
             /\ ~WasMatched(id)
             /\ MatchingRules(SnapshotOf(event', id)) # {})
            => LET rule == RULES[Min(MatchingRules(SnapshotOf(event', id)))]
                   sent == OfId(issued', id)
                   h == IF rule.height # 0 THEN 1 ELSE 0
                   w == IF rule.width # 0 THEN 1 ELSE 0
               IN /\ Len(sent) = 1 + h + w + (IF rule.centered THEN 2 ELSE 0)
                  /\ sent[1].a = "MoveWindowToFloating"
                  /\ h = 1 => sent[2].a = "SetWindowHeight" /\ sent[2].SetFixed = rule.height
                  /\ w = 1 => /\ sent[2 + h].a = "SetWindowWidth"
                              /\ sent[2 + h].SetFixed = rule.width
                  /\ rule.centered => /\ sent[2 + h + w].a = "MoveFloatingWindow"
                                      /\ sent[3 + h + w].a = "MoveFloatingWindow"
                  /\ windows'[id].matched]_vars

\* A window went from unmatched to matched by a rule with height, width and
\* centered, and five actions were sent.
C25_Witness ==
    /\ pc = "running"
    /\ event.kind = "WindowOpenedOrChanged"
    /\ windows[event.window.id].matched
    /\ Len(issued) = 5
    /\ issued[2].a = "SetWindowHeight"
    /\ issued[3].a = "SetWindowWidth"

\* C27: when several rules match a snapshot that fires, the directives sent are
\* those of the matching rule of the least index, and nothing of a later rule.
C27_FirstMatchingRuleWins ==
    (pc = "running" /\ issued # <<>>)
        => \A id \in SnapshotIds(event) :
              (Once(event, id) /\ OfId(issued, id) # <<>>)
                 => /\ MatchingRules(SnapshotOf(event, id)) # {}
                    /\ OfId(issued, id)
                         = directives(id, RULES[Min(MatchingRules(SnapshotOf(event, id)))])

\* Two rules matched the window and it was floated.
C27_Witness ==
    /\ pc = "running"
    /\ event.kind = "WindowOpenedOrChanged"
    /\ Cardinality(MatchingRules(event.window)) = 2
    /\ issued # <<>>

\* C28: a matched flag that is true stays true as long as the id is in the
\* registry, whatever the later snapshots of the id match.
C28_FlagIsSticky ==
    [][ReadStep =>
         \A id \in DOMAIN windows :
            (windows[id].matched /\ id \in DOMAIN windows') => windows'[id].matched]_vars

\* A matched window got a snapshot that no rule matches and is still matched.
C28_Witness ==
    /\ pc = "running"
    /\ event.kind = "WindowOpenedOrChanged"
    /\ MatchingRules(event.window) = {}
    /\ Rule_matches(RULES[1], event.window) = Ok(FALSE)
    /\ windows[event.window.id].matched
    /\ issued = <<>>

\* C29: the actions an event causes are for window ids the event carries a
\* snapshot of: none for WindowClosed, the id of its window for
\* WindowOpenedOrChanged, ids of its list for WindowsChanged.
C29_ActionsOnlyForEventWindows ==
    [][ReadStep => \A k \in 1..Len(issued') : issued'[k].id \in SnapshotIds(event')]_vars

\* A window was floated while another one, in the registry and not matched, was
\* left alone.
C29_Witness ==
    /\ pc = "running"
    /\ event.kind = "WindowOpenedOrChanged"
    /\ issued # <<>>
    /\ \E other \in DOMAIN windows \ {event.window.id} : ~windows[other].matched

\* Two quotients are the same number.
SameNumber(f, g) == f.num * g.den = g.num * f.den

\* C30: the MoveFloatingWindow actions sent for a window that a centered rule of
\* width W and height H fires on are two: x and y SetProportion 50, then x
\* AdjustFixed -(W/2) and y AdjustFixed H/4; no other rule sends one.
C30_Centering ==
    (pc = "running" /\ issued # <<>>)
        => \A id \in SnapshotIds(event) :
              (Once(event, id) /\ OfId(issued, id) # <<>>)
                 => LET rule == RULES[Min(MatchingRules(SnapshotOf(event, id)))]
                        moves == SelectSeq(OfId(issued, id),
                                           LAMBDA act : act.a = "MoveFloatingWindow")
                    IN IF ~rule.centered THEN moves = <<>>
                       ELSE /\ Len(moves) = 2
                            /\ moves[1].how = "SetProportion"
                            /\ SameNumber(moves[1].x, [num |-> 50, den |-> 1])
                            /\ SameNumber(moves[1].y, [num |-> 50, den |-> 1])
                            /\ moves[2].how = "AdjustFixed"
                            /\ SameNumber(moves[2].x, [num |-> -rule.width, den |-> 2])
                            /\ SameNumber(moves[2].y, [num |-> rule.height, den |-> 4])

\* A rule of width 4 and height 8 centered a window.
C30_Witness ==
    /\ pc = "running"
    /\ event.kind = "WindowOpenedOrChanged"
    /\ Len(issued) = 5
    /\ issued[5].how = "AdjustFixed"
    /\ RULES[Min(MatchingRules(event.window))].width = 4
    /\ RULES[Min(MatchingRules(event.window))].height = 8


----------------------------------------------------------------------------
(* Claims on the state file under two invocations *)

\* C24 as claimed: an invocation that reads the state file while another one
\* writes it gets the whole old record or the whole new record.
C24_ReadIsOldOrNew ==
    (run.script = "save_state" /\ result # NoCall)
        => result \in { Ok(Dict(run.old)), Ok(Dict(run.new)) }


----------------------------------------------------------------------------
(* Claims on the windows launch-music counts *)

\* The apps were sorted by the list run.windows: in the short-circuit, before
\* the launch, or just after it.
Classified ==
    /\ run.script = "launch-music"
    /\ \/ run.pc = "launch"
       \/ JustLaunched
       \/ run.pc = "exited" /\ run.popen = "not called" /\ run.exit = 0

\* A turn of the loop has looked for the missing apps in the list run.windows,
\* window_map having been run.was.
Polled == run.script = "launch-music" /\ run.pc = "wait" /\ run.polls >= 1

\* The apps (by their place in APP_ID_STRINGS) that window_map has.
Mapped(window_map) ==
    { k \in 1..Len(APP_ID_STRINGS) :
        \E i \in 1..Len(window_map) : window_map[i].app = APP_ID_STRINGS[k] }

\* C31: an app is taken as running iff the window list has a window with the
\* app's compositor identifier, on the target workspace, not floating; the
\* turns of the poll loop add an app to window_map by the same test.
C31_RunningIffTiledOnWorkspace ==
    /\ Classified =>
          Mapped(run.window_map)
             = (1..Len(APP_ID_STRINGS)) \ MissingApps(run.windows, run.workspace_id)
    /\ Polled =>
          Mapped(run.window_map)
             = Mapped(run.was)
                 \cup ((1..Len(APP_ID_STRINGS)) \ MissingApps(run.windows, run.workspace_id))

\* The apps were sorted by a list with a floating window of one app, a window
\* of another on another workspace and a tiled window of the third: two were
\* missing.
C31_Witness ==
    /\ Classified
    /\ Len(run.windows.items) = 3
    /\ \E i \in 1..3 : run.windows.items[i].items.is_floating = PyBool(TRUE)
    /\ \E i \in 1..3 : run.windows.items[i].items.workspace_id # run.workspace_id
    /\ Cardinality(Mapped(run.window_map)) = 1

\* main() ended after the windows were fetched again (lines 147-201).
Assembled ==
    /\ MusicExited
    /\ run.popen # "not called"
    /\ run.polls >= 1
    /\ run.windows \notin { Unset, None }

\* The windows of the list at the places of a set, in the order of the list.
RECURSIVE Picked(_, _, _)
Picked(wins, places, i) ==
    IF i > Len(wins.items) THEN <<>>
    ELSE (IF i \in places THEN << wins.items[i] >> ELSE <<>>) \o Picked(wins, places, i + 1)

HasLayout(wins) == \A i \in 1..Len(wins.items) : "layout" \in DOMAIN wins.items[i].items

\* C32: of the list fetched again, the target windows are the windows of the
\* configured apps that are on the target workspace and not floating; actions
\* are sent only if there are as many as configured apps, and the first one
\* focuses a window of the least column among them.
C32_AssembleSelectsAndFindsLeftmost ==
    Assembled =>
        LET targets == StackWindows(run.windows, run.workspace_id)
        IN /\ target_windows(run.windows.items, run.workspace_id)
                = Picked(run.windows, targets, 1)
           /\ sent_actions # <<>> => Cardinality(targets) = Len(APP_ID_STRINGS)
           /\ (Cardinality(targets) = Len(APP_ID_STRINGS) /\ HasLayout(run.windows))
                 => /\ sent_actions # <<>>
                    /\ \E i \in targets :
                          /\ sent_actions[1] = FocusWindow(run.windows.items[i].items.id.n)
                          /\ \A j \in targets : ColumnOf(run.windows.items[i])
                                                  <= ColumnOf(run.windows.items[j])

\* The stack was built with the last window of the list the leftmost.
C32_Witness ==
    /\ Assembled
    /\ run.exit = 0
    /\ Len(run.windows.items) = 3
    /\ sent_actions[1] = FocusWindow(run.windows.items[3].items.id.n)

\* C40 as claimed: the ids focused in the reveal loop are the ids of the target
\* windows of the list fetched again.
C40_RevealedAreTheTargets ==
    Stacked0 =>
        { run.window_map[i].id : i \in 1..Len(run.window_map) }
          = { run.windows.items[i].items.id : i \in StackWindows(run.windows, run.workspace_id) }


----------------------------------------------------------------------------
(* Claims on the two operations of window-glancer *)

\* The value a state file holds under a key, None without one.
Saved(file, key) ==
    IF file.kind = "JSON text" /\ key \in DOMAIN file.doc.v /\ file.doc.v[key].j = "number"
    THEN PyInt(file.doc.v[key].v)
    ELSE None

\* The places of the Workspaces reply that are on the secondary monitor.
OnSecondary(wss) ==
    { i \in 1..Len(wss.items) : wss.items[i].items.output = SECONDARY_MONITOR_NAME }

\* The last workspace index of the secondary monitor, 0 without a workspace.
LastIdx(wss) ==
    IF OnSecondary(wss) = {} THEN PyInt(0)
    ELSE CHOOSE x \in { wss.items[i].items.idx : i \in OnSecondary(wss) } :
            \A i \in OnSecondary(wss) : wss.items[i].items.idx.n <= x.n

SecondaryFocused(wss) ==
    \E i \in OnSecondary(wss) : wss.items[i].items.is_focused = PyBool(TRUE)

\* The window the secondary monitor shows: that of its active workspace.
SecondaryActiveWindow(wss) ==
    IF \E i \in OnSecondary(wss) : wss.items[i].items.is_active = PyBool(TRUE)
    THEN wss.items[CHOOSE i \in OnSecondary(wss) :
                      wss.items[i].items.is_active = PyBool(TRUE)].items.active_window_id
    ELSE None

\* The actions of move_to_glance that do not depend on the focus.
GlanceFive ==
    << FocusMonitor(SECONDARY_MONITOR_NAME),
       SetWorkspaceName(GLANCE_WORKSPACE_NAME, LastIdx(run.replies.workspaces)),
       FocusWindow(run.found.val.id.n),
       SetWindowWidth(run.found.val.id, 100),
       MoveColumnToWorkspace(GLANCE_WORKSPACE_NAME) >>

\* C33 as claimed: move_to_glance with the target window present sends
\* FocusMonitor(secondary), SetWorkspaceName(glance, last index of the secondary
\* monitor), FocusWindow(target), SetWindowWidth(target, 100 %),
\* MoveColumnToWorkspace(glance), then FocusWindow(window focused before) iff
\* the secondary monitor was not focused; it then persists glance with the
\* target's column and width and the secondary monitor's active window, and
\* returns True.
C33_MoveToGlance ==
    (GlancerExited /\ run.op = "glance" /\ TargetFound)
        => /\ run.exc = "none"
           /\ run.ret = PyBool(TRUE)
           /\ sent_actions
                = GlanceFive \o (IF SecondaryFocused(run.replies.workspaces) THEN <<>>
                                 ELSE << FocusWindow(run.replies.focused.items.id.n) >>)
           /\ state_file = save_state(Str(glance), run.found.val.column, run.found.val.width,
                                      SecondaryActiveWindow(run.replies.workspaces))

C38_RecordInvariant ==
    \E current \in { get_current_state(load_state(state_file)) } :
        /\ ~Raised(current)
        /\ current.val.state \in { Str(primary), Str(glance) }
        /\ current.val.state = Str(primary)
              => /\ current.val.saved_column = None
                 /\ current.val.saved_width = None
                 /\ current.val.saved_secondary_window_id = None

\* An invocation found a glance record with a saved secondary window and left a
\* primary record.
C38_Witness ==
    /\ GlancerExited
    /\ Saved(run.before, "saved_secondary_window_id") = PyInt(2)
    /\ PersistedState(run.before) = JDoc("string", glance)
    /\ PersistedState(state_file) = JDoc("string", primary)
    /\ Saved(state_file, "saved_secondary_window_id") = None

\* C39 as claimed: `glance` on a glance record, with the target window present,
\* sends what it sends on a primary record and overwrites saved_column and
\* saved_width with the column and width the window has now.
C39_GlanceOnGlance ==
    (GlancerExited /\ run.cmd = "glance" /\ TargetFound
       /\ PersistedState(run.before) = JDoc("string", glance))
        => /\ run.replies.workspaces # None
                 => /\ Len(sent_actions) >= 5
                    /\ SubSeq(sent_actions, 1, 5) = GlanceFive
           /\ Saved(state_file, "saved_column") = run.found.val.column
           /\ Saved(state_file, "saved_width") = run.found.val.width


----------------------------------------------------------------------------
(* Claims on the floats of a window over the stream *)

\* C37: on a stream in which no WindowsChanged list has an id twice, no window
\* id has been floated more often than it came into the registry (an event
\* carried it that the registry did not have): one MoveWindowToFloating at the
\* most for each stay of an id in the registry.
C37_OneFloatPerResidency == \A id \in WinIds : tally[id] >= 0

\* Window 1 has just been floated on coming into the registry again, its stay
\* before having gone without a float.
C37_Witness ==
    /\ floats_of(issued, 1) = 1
    /\ tally[1] = 1
    /\ 1 \in DOMAIN windows
    /\ windows[1].matched


----------------------------------------------------------------------------
(* Claims on two toggles at the same time *)

\* Both processes have ended, and both had read the state primary.
BothReadPrimary ==
    /\ run.script = "two toggles"
    /\ \A i \in Togglers : run.procs[i].pc = "exited" /\ run.procs[i].state = Str(primary)

\* The actions process i sent, in order.
RECURSIVE SentBy(_, _)
SentBy(actions, i) ==
    IF actions = <<>> THEN <<>>
    ELSE (IF Head(actions).by = i THEN << Head(actions).action >> ELSE <<>>)
         \o SentBy(Tail(actions), i)

\* C36: two toggle processes are not held apart: when both have read the state
\* primary, both run move_to_glance, whatever the other has written meanwhile,
\* and the state left by a pair of which one ran to its end is glance; the
\* witness is the interleaving in which this happens from a primary record.
C36_RacingTogglesBothGlance ==
    BothReadPrimary =>
        /\ \A i \in Togglers :
              /\ run.procs[i].op = "glance"
              /\ SentBy(sent_actions, i) # <<>>
                    => SentBy(sent_actions, i)[1] = FocusMonitor(SECONDARY_MONITOR_NAME)
        /\ (\E i \in Togglers : run.procs[i].ret = PyBool(TRUE))
              => PersistedState(state_file) = JDoc("string", glance)

\* From a primary record both processes read primary before either wrote, both
\* ran move_to_glance to its end with their actions interleaved, and the state
\* left is glance.
C36_Witness ==
    /\ BothReadPrimary
    /\ PersistedState(run.before) = JDoc("string", primary)
    /\ \A i \in Togglers : run.procs[i].ret = PyBool(TRUE) /\ Len(SentBy(sent_actions, i)) >= 5
    /\ \E a, b, c, d \in 1..Len(sent_actions) :
          /\ a < b /\ b < c /\ c < d
          /\ sent_actions[a].by = 1 /\ sent_actions[b].by = 2
          /\ sent_actions[c].by = 1 /\ sent_actions[d].by = 2
    /\ PersistedState(state_file) = JDoc("string", glance)

============================================================================
